---------------------------- MODULE Spec2Model ----------------------------
(***************************************************************************)
(* A model of the page comparison engine of grok-what                      *)
(* (src/src/comparators/page_comparator.py).                               *)
(*                                                                         *)
(* A text is a sequence of one-character strings.  A float that the code   *)
(* computes as a quotient of two integers is kept as the exact fraction    *)
(* [num, den] (den > 0); the comparisons the code makes on such a float    *)
(* are made on the fraction by cross-multiplication.                       *)
(***************************************************************************)
EXTENDS Integers, Sequences, FiniteSets, TLC

VARIABLES
    text1,        \* first text argument (Grokipedia side)
    text2,        \* second text argument (Wikipedia side)
    similarity,   \* _calculate_text_similarity(text1, text2)
    reversed,     \* _calculate_text_similarity(text2, text1)
    category,     \* _categorize_similarity of the value bucketed
    max_segments, \* the max_segments argument of _generate_diff_segments
    diffs,        \* the cleaned-up diff list inside _generate_diff_segments
    segments,     \* the DiffSegment list it returned
    sections1,    \* first sections mapping (title -> body)
    sections2,    \* second sections mapping
    overlap,      \* _calculate_section_overlap(sections1, sections2)
    unique1,      \* _find_unique_sections(sections1, sections2)
    unique2,      \* _find_unique_sections(sections2, sections1)
    score,        \* a float handed to _categorize_similarity on its own
    grokipedia_page, \* the PageContent compare() takes first
    wikipedia_page,  \* the PageContent compare() takes second
    result,       \* compare(grokipedia_page, wikipedia_page)
    swapped,      \* compare(wikipedia_page, grokipedia_page)
    page,         \* a PageContent record on its own
    word_count_arg, \* the word_count its constructor was given (0: none)
    comparator,   \* a PageComparator that serves several compare() calls
    calls,        \* the number of compare() calls it has served
    given,        \* the two pages as they were before its first call
    fresh,        \* what a fresh PageComparator returned for the two pages
    invocation,   \* the frames of compare() calls running at the same time
    scratch,      \* the diff lists those calls are working on
    analysed_text,  \* the text handed to a MetricsAnalyzer
    citation_count, \* the citation_count handed to it with the text
    quality,      \* calculate_quality_metrics(analysed_text, citation_count)
    bias,         \* calculate_bias_metrics(analysed_text)
    configuration,  \* what the sampling configuration file holds
    total_size,   \* the total_size the samplers are asked for
    stream,       \* the numbers random gives after random.seed(seed)
    random_state, \* the state of the module random: seed, numbers drawn
    samplers,     \* the TopicSampler instances of the process
    sampled,      \* what sample_topics(total_size) returned to each
    flat,         \* what get_all_topics_flat(total_size) returned to each
    events,       \* the calls on the samplers so far, in order
    now,          \* time.time(), in seconds
    scraper,      \* a scraper: rate_limit_delay, max_retries,
                  \* last_request_time
    fetch,        \* the _fetch_page call in progress: statement, attempt
    requests,     \* the GET requests the scraper has started, in order
    sleeps,       \* the time.sleep calls it has made, in order
    fetched,      \* what its _fetch_page calls returned, in order
    topic_list,   \* the (category, topic) pairs run_comparison goes through
    loop_index,   \* the pair its loop is at, counted from 1
    results,      \* self.results of the orchestrator
    results_before, \* self.results as it was when run_comparison began
    processed,    \* what happened to each pair the loop has been through
    returned      \* the calls that have returned; a result variable holds
                  \* its ComparisonResult default until its call is in here

vars == <<text1, text2, similarity, reversed, category, max_segments, diffs,
          segments, sections1, sections2, overlap, unique1, unique2, score,
          grokipedia_page, wikipedia_page, result, swapped, page,
          word_count_arg, comparator, calls, given, fresh, invocation,
          scratch, analysed_text, citation_count, quality, bias,
          configuration, total_size, stream, random_state, samplers,
          sampled, flat, events, now, scraper, fetch, requests, sleeps,
          fetched, topic_list, loop_index, results, results_before,
          processed, returned>>

\* the variables of the calls on single functions
funVars == <<text1, text2, similarity, reversed, category, max_segments,
             diffs, segments, sections1, sections2, overlap, unique1,
             unique2, score>>

\* the variables of compare() and of a PageContent record
pageVars == <<grokipedia_page, wikipedia_page, result, swapped, page,
              word_count_arg>>

\* the variables of a PageComparator in use
repeatVars == <<comparator, calls, given, fresh>>

\* the variables that the specifications of single functions, of one
\* compare() and of a PageContent leave alone
\* the variables of compare() calls running at the same time
concVars == <<invocation, scratch>>

\* the variables of the specifications that follow SpecRepeat
\* the variables of a MetricsAnalyzer
metricVars == <<analysed_text, citation_count, quality, bias>>

\* the variables of the specifications after SpecConcurrent
\* the variables of TopicSampler and of random
samplerVars == <<configuration, total_size, stream, random_state, samplers,
                 sampled, flat, events>>

\* the variables of the specifications after SpecMetrics
\* the variables of a scraper
scraperVars == <<now, scraper, fetch, requests, sleeps, fetched>>

\* the variables of the specifications after SpecCustom
\* the variables of a ComparisonOrchestrator
orchestratorVars == <<topic_list, loop_index, results, results_before,
                      processed>>

\* the variables of the specifications after SpecScraper
afterScraper == <<orchestratorVars>>

afterSampler == <<scraperVars, afterScraper>>

afterMetrics == <<samplerVars, afterSampler>>

afterConc == <<metricVars, afterMetrics>>

afterRepeat == <<concVars, afterConc>>

laterVars == <<repeatVars, afterRepeat>>

----------------------------------------------------------------------------
(* Bounds of the model.                                                    *)

\* longest short text drawn as an input of the similarity measure
MaxLen == 3
\* longest short text drawn as an input of the diff segmenter
MaxDiffLen == 3
\* a long text exceeds the 500-character truncation by at most this much
MaxOver == 1
\* section titles are 1..MaxTitles, ordered as their strings are
MaxTitles == 4
\* small max_segments arguments drawn besides the default
MaxCap == 2
\* longest text drawn for a PageContent record on its own
MaxWordLen == 3
\* most compare() calls one PageComparator serves
MaxCalls == 2

----------------------------------------------------------------------------
(* Texts.                                                                  *)

Alphabet == {"a", "A", "b", "c"}

\* str.lower() on the alphabet
Lower(c) == IF c = "A" THEN "a" ELSE c

LowerText(t) == [i \in 1..Len(t) |-> Lower(t[i])]

Repeat(c, n) == [i \in 1..n |-> c]

TextsUpTo(n) == UNION {[1..k -> Alphabet] : k \in 0..n}

Min(S) == CHOOSE x \in S : \A y \in S : x <= y
Max(S) == CHOOSE x \in S : \A y \in S : x >= y

\* the element of a one-element set; {e(x) : x \in {v}} names the value of
\* v once, as a local variable of the code does
TheOnly(S) == CHOOSE x \in S : TRUE

\* a fraction as the code's float
Frac(n, d) == [num |-> n, den |-> d]
FracEq(x, y) == x.num * y.den = y.num * x.den
FracLe(x, y) == x.num * y.den <= y.num * x.den
FracLt(x, y) == x.num * y.den < y.num * x.den

----------------------------------------------------------------------------
(* difflib.SequenceMatcher(None, a, b).ratio(), as page_comparator.py:168  *)
(* uses it: isjunk is None, autojunk is on.  Indices are 0-based and       *)
(* ranges half-open as in the library; a[i] of the library is a[i+1] here. *)

\* __chain_b: with autojunk, in a b of 200 or more elements, an element
\* occurring more than len(b) // 100 + 1 times is "popular" and is dropped
\* from the index b2j.
Popular(b) ==
    IF Len(b) >= 200
    THEN {c \in {b[j] : j \in 1..Len(b)} :
            Cardinality({j \in 1..Len(b) : b[j] = c}) > (Len(b) \div 100) + 1}
    ELSE {}

\* j2len: the length of the run of index matches a[i']=b[j'] (b[j'] in b2j)
\* that ends at (i, j) and stays inside the window.
RECURSIVE RunLen(_, _, _, _, _, _, _)
RunLen(a, b, pop, alo, blo, i, j) ==
    IF i < alo \/ j < blo THEN 0
    ELSE IF a[i + 1] # b[j + 1] \/ b[j + 1] \in pop THEN 0
    ELSE 1 + RunLen(a, b, pop, alo, blo, i - 1, j - 1)

\* every k the inner loop of find_longest_match computes, as <<i, j, k>>
Runs(a, b, pop, alo, ahi, blo, bhi) ==
    {<<p[1], p[2], RunLen(a, b, pop, alo, blo, p[1], p[2])>> :
       p \in {q \in (alo..(ahi - 1))
                    \X {j \in blo..(bhi - 1) : b[j + 1] \notin pop} :
                a[q[1] + 1] = b[q[2] + 1]}}

\* the best after the loops: the code replaces its best only on
\* k > bestsize, scanning i upwards and for each i the j upwards, so the
\* longest run wins and among the longest the first one met
BestRun(runs, alo, blo) ==
    IF runs = {} THEN [i |-> alo, j |-> blo, size |-> 0]
    ELSE TheOnly({[i |-> r[1] - r[3] + 1, j |-> r[2] - r[3] + 1, size |-> r[3]] :
                    r \in {CHOOSE x \in runs : \A y \in runs :
                             \/ x[3] > y[3]
                             \/ x[3] = y[3] /\ x[1] < y[1]
                             \/ x[3] = y[3] /\ x[1] = y[1] /\ x[2] <= y[2]}})

\* first while loop: walk left while the elements before the match agree
ExtendBack(a, b, alo, blo, m) ==
    LET lim  == Min({m.i - alo, m.j - blo})
        bad  == {t \in 1..lim : a[m.i - t + 1] # b[m.j - t + 1]}
        back == IF bad = {} THEN lim ELSE Min(bad) - 1
    IN  [i |-> m.i - back, j |-> m.j - back, size |-> m.size + back]

\* second while loop: walk right while the elements after the match agree
ExtendForward(a, b, ahi, bhi, m) ==
    LET lim == Min({ahi - (m.i + m.size), bhi - (m.j + m.size)})
        bad == {t \in 0..(lim - 1) :
                  a[m.i + m.size + t + 1] # b[m.j + m.size + t + 1]}
        fwd == IF bad = {} THEN lim ELSE Min(bad)
    IN  [i |-> m.i, j |-> m.j, size |-> m.size + fwd]

\* find_longest_match (isbjunk is always false here, so the last two while
\* loops add nothing)
FindLongestMatch(a, b, pop, alo, ahi, blo, bhi) ==
    TheOnly({ExtendForward(a, b, ahi, bhi, m1) :
               m1 \in {ExtendBack(a, b, alo, blo, m0) :
                 m0 \in {BestRun(runs, alo, blo) :
                   runs \in {Runs(a, b, pop, alo, ahi, blo, bhi)}}}})

\* get_matching_blocks: the longest match of the window, then the same to
\* its left and to its right; the sum of the sizes is what ratio() uses.
RECURSIVE MatchingTotal(_, _, _, _, _, _, _)
MatchingTotal(a, b, pop, alo, ahi, blo, bhi) ==
    TheOnly({IF m.size = 0 THEN 0
             ELSE m.size
                  + (IF alo < m.i /\ blo < m.j
                     THEN MatchingTotal(a, b, pop, alo, m.i, blo, m.j) ELSE 0)
                  + (IF m.i + m.size < ahi /\ m.j + m.size < bhi
                     THEN MatchingTotal(a, b, pop, m.i + m.size, ahi,
                                        m.j + m.size, bhi)
                     ELSE 0) :
             m \in {FindLongestMatch(a, b, pop, alo, ahi, blo, bhi)}})

\* ratio(): 2.0 * matches / (len(a) + len(b)), and 1.0 for two empty texts
Ratio(a, b) ==
    IF Len(a) + Len(b) = 0 THEN Frac(1, 1)
    ELSE Frac(2 * TheOnly({MatchingTotal(a, b, pop, 0, Len(a), 0, Len(b)) :
                             pop \in {Popular(b)}}),
              Len(a) + Len(b))

----------------------------------------------------------------------------
(* PageComparator._calculate_text_similarity                               *)

\* as CalculateTextSimilarity, lower-casing the first text only
CalculateTextSimilarityLowerFirst(t1, t2) ==
    IF t1 = <<>> \/ t2 = <<>> THEN Frac(0, 1)
    ELSE TheOnly({Ratio(a, b) : a \in {LowerText(t1)}, b \in {t2}})

\* as CalculateTextSimilarity, without the test for an empty text
CalculateTextSimilarityNoGuard(t1, t2) ==
    TheOnly({Ratio(a, b) : a \in {LowerText(t1)}, b \in {LowerText(t2)}})

CalculateTextSimilarity(t1, t2) ==
    IF t1 = <<>> \/ t2 = <<>> THEN Frac(0, 1)
    ELSE TheOnly({Ratio(a, b) : a \in {LowerText(t1)}, b \in {LowerText(t2)}})

(* PageComparator._categorize_similarity                                   *)

\* as CategorizeSimilarity, with > for >=
CategorizeSimilarityStrict(s) ==
    IF FracLt(Frac(85, 100), s) THEN "high"
    ELSE IF FracLt(Frac(60, 100), s) THEN "medium"
    ELSE "low"

CategorizeSimilarity(s) ==
    IF FracLe(Frac(85, 100), s) THEN "high"
    ELSE IF FracLe(Frac(60, 100), s) THEN "medium"
    ELSE "low"

----------------------------------------------------------------------------
(* diff_match_patch, as _generate_diff_segments uses it.                   *)
(*                                                                         *)
(* diff_main(text1, text2) followed by diff_cleanupSemantic: a list of     *)
(* (op, text) with op -1 (DELETE: text of text1 that text2 lacks), 1       *)
(* (INSERT: text of text2 that text1 lacks) and 0 (EQUAL).  Which of the   *)
(* edit scripts of a pair the library returns depends on its heuristics    *)
(* and on its Diff_Timeout deadline, so the model takes any of them: the   *)
(* texts are non-empty, neighbours differ in op, the DELETE and EQUAL      *)
(* texts joined give text1 and the INSERT and EQUAL texts give text2.      *)
(* The outcomes the library fixes before any heuristic are kept exact:     *)
(* equal texts give one EQUAL (or nothing), an empty side gives one        *)
(* INSERT or one DELETE, and a text that starts with the whole other text  *)
(* gives the EQUAL common prefix and then the rest as one INSERT or one    *)
(* DELETE (the clean-up leaves a leading EQUAL in place).                  *)

DIFF_DELETE == -1
DIFF_INSERT == 1
DIFF_EQUAL  == 0

Diff(o, t) == [op |-> o, text |-> t]

Drop(t, k) == SubSeq(t, k + 1, Len(t))

RECURSIVE EditScripts(_, _, _)
EditScripts(a, b, last) ==
    IF a = <<>> /\ b = <<>> THEN {<<>>}
    ELSE
      (IF last = DIFF_EQUAL THEN {}
       ELSE UNION {{<<Diff(DIFF_EQUAL, SubSeq(a, 1, k))>> \o r :
                      r \in EditScripts(Drop(a, k), Drop(b, k), DIFF_EQUAL)} :
                   k \in {n \in 1..Min({Len(a), Len(b)}) :
                            SubSeq(a, 1, n) = SubSeq(b, 1, n)}})
      \cup
      (IF last = DIFF_DELETE THEN {}
       ELSE UNION {{<<Diff(DIFF_DELETE, SubSeq(a, 1, k))>> \o r :
                      r \in EditScripts(Drop(a, k), b, DIFF_DELETE)} :
                   k \in 1..Len(a)})
      \cup
      (IF last = DIFF_INSERT THEN {}
       ELSE UNION {{<<Diff(DIFF_INSERT, SubSeq(b, 1, k))>> \o r :
                      r \in EditScripts(a, Drop(b, k), DIFF_INSERT)} :
                   k \in 1..Len(b)})

\* t.startswith(p)
StartsWith(t, p) == Len(p) <= Len(t) /\ SubSeq(t, 1, Len(p)) = p

\* the diff of two texts when the library fixes it, as a set of one list;
\* no list when it does not
DiffFixed(t1, t2) ==
    IF t1 = t2
    THEN (IF t1 = <<>> THEN {<<>>} ELSE {<<Diff(DIFF_EQUAL, t1)>>})
    ELSE IF t1 = <<>> THEN {<<Diff(DIFF_INSERT, t2)>>}
    ELSE IF t2 = <<>> THEN {<<Diff(DIFF_DELETE, t1)>>}
    ELSE IF StartsWith(t2, t1)
    THEN {<<Diff(DIFF_EQUAL, t1), Diff(DIFF_INSERT, Drop(t2, Len(t1)))>>}
    ELSE IF StartsWith(t1, t2)
    THEN {<<Diff(DIFF_EQUAL, t2), Diff(DIFF_DELETE, Drop(t1, Len(t2)))>>}
    ELSE {}

\* the possible values of diffs after diff_main and diff_cleanupSemantic
DiffMain(t1, t2) ==
    IF DiffFixed(t1, t2) # {} THEN DiffFixed(t1, t2)
    ELSE EditScripts(t1, t2, 2)   \* 2: no entry precedes the first

----------------------------------------------------------------------------
(* PageComparator._generate_diff_segments                                  *)

\* as Truncate, keeping the whole text
TruncateNothing(t) == t

\* text[:500]
Truncate(t) == SubSeq(t, 1, Min({Len(t), 500}))

DiffSegment(ty, g, w, pos) ==
    [type |-> ty, grokipedia_text |-> g, wikipedia_text |-> w,
     position |-> pos]

\* one pass of the loop body: the segment built from a diff entry
SegmentOf(d, position) ==
    IF d.op = 0
    THEN DiffSegment("equal", Truncate(d.text), Truncate(d.text), position)
    ELSE IF d.op = -1
    THEN DiffSegment("delete", Truncate(<<>>), Truncate(d.text), position)
    ELSE DiffSegment("insert", Truncate(d.text), Truncate(<<>>), position)

\* as SegmentLoop, position counting entries instead of characters
RECURSIVE SegmentLoopCountingEntries(_, _, _)
SegmentLoopCountingEntries(ds, position, segs) ==
    IF ds = <<>> THEN segs
    ELSE SegmentLoopCountingEntries(Tail(ds), position + 1,
                     Append(segs, SegmentOf(Head(ds), position)))

\* the loop over diffs[:max_segments], position running along
RECURSIVE SegmentLoop(_, _, _)
SegmentLoop(ds, position, segs) ==
    IF ds = <<>> THEN segs
    ELSE SegmentLoop(Tail(ds), position + Len(Head(ds).text),
                     Append(segs, SegmentOf(Head(ds), position)))

GenerateDiffSegments(ds, cap) ==
    SegmentLoop(SubSeq(ds, 1, Min({Len(ds), cap})), 0, <<>>)

----------------------------------------------------------------------------
(* PageComparator._calculate_section_overlap and _find_unique_sections.    *)
(* A sections mapping is a function from titles to bodies; a title is a    *)
(* number, and titles are ordered as the strings they stand for.           *)

\* as CalculateSectionOverlap, dividing by the size of the first key set
CalculateSectionOverlapOfFirst(s1, s2) ==
    IF DOMAIN s1 = {} \/ DOMAIN s2 = {} THEN Frac(0, 1)
    ELSE Frac(Cardinality(DOMAIN s1 \cap DOMAIN s2), Cardinality(DOMAIN s1))

CalculateSectionOverlap(s1, s2) ==
    IF DOMAIN s1 = {} \/ DOMAIN s2 = {} THEN Frac(0, 1)
    ELSE LET set1 == DOMAIN s1
             set2 == DOMAIN s2
             intersection == Cardinality(set1 \cap set2)
             union == Cardinality(set1 \cup set2)
         IN  IF union > 0 THEN Frac(intersection, union) ELSE Frac(0, 1)

\* list(s): the elements of a set in any order
ListsOf(S) ==
    {l \in [1..Cardinality(S) -> S] : \A x \in S : \E i \in DOMAIN l : l[i] = x}

\* sorted(l)
RECURSIVE Sorted(_)
Sorted(l) ==
    IF l = <<>> THEN <<>>
    ELSE LET m == Min({l[i] : i \in DOMAIN l})
             at == Min({i \in DOMAIN l : l[i] = m})
         IN  <<m>> \o Sorted(SubSeq(l, 1, at - 1) \o SubSeq(l, at + 1, Len(l)))

\* as FindUniqueSections, without sorted()
FindUniqueSectionsUnsorted(s1, s2) == ListsOf(DOMAIN s1 \ DOMAIN s2)

\* the possible values of sorted(list(set1 - set2)): one, whatever the
\* order in which the set is listed
FindUniqueSections(s1, s2) ==
    {Sorted(l) : l \in ListsOf(DOMAIN s1 \ DOMAIN s2)}

----------------------------------------------------------------------------
(* PageContent (src/src/scrapers/base_scraper.py).  An Optional value is   *)
(* the empty set for None and the set of the value otherwise; a list of    *)
(* which the comparison takes the length only is the sequence 1..n.        *)

\* PageContent.sections by default
NoSections == <<>>

None == {}
Some(x) == {x}

Whitespace == {" ", "\t", "\n"}

\* len(text.split()): the runs of characters that are not whitespace
WordCount(text) ==
    Cardinality({i \in 1..Len(text) :
                   /\ text[i] \notin Whitespace
                   /\ (i = 1 \/ text[i - 1] \in Whitespace)})

\* as PostInit, counting nothing
PostInitNothing(p) == p

\* __post_init__
PostInit(p) ==
    IF p.word_count = 0 /\ p.text_content # <<>>
    THEN [p EXCEPT !.word_count = WordCount(p.text_content)]
    ELSE p

\* PageContent(...): the fields the comparison reads
PageContent(text, sects, cites, box, links, modified, words) ==
    PostInit([text_content |-> text, sections |-> sects, citations |-> cites,
              infobox |-> box, external_links |-> links,
              last_modified |-> modified, word_count |-> words])

\* a list of n elements
ListOfLen(n) == [i \in 1..n |-> i]

\* PageContent(text_content = text) with every other field at its default
PageOfText(text) ==
    PageContent(text, NoSections, <<>>, None, <<>>, None, 0)

----------------------------------------------------------------------------
(* PageComparator._calculate_levenshtein_distance                          *)
(*                                                                         *)
(* diff_main alone, without the semantic clean-up.  Beside the fixed       *)
(* outcomes, texts shorter than the 4 characters of the half-match         *)
(* heuristic get a shortest edit script (the library's bisection is        *)
(* Myers' algorithm), any of them; longer texts get any edit script.       *)

RECURSIVE EditLength(_)
EditLength(ds) ==
    IF ds = <<>> THEN 0
    ELSE (IF ds[1].op = DIFF_EQUAL THEN 0 ELSE Len(ds[1].text))
         + EditLength(Tail(ds))

ShortestOf(scripts) ==
    TheOnly({ {d \in scripts : EditLength(d) = m} :
              m \in {Min({EditLength(d) : d \in scripts})} })

DiffMainOnly(t1, t2) ==
    IF DiffFixed(t1, t2) # {} THEN DiffFixed(t1, t2)
    ELSE IF Len(t1) < 4 /\ Len(t2) < 4
    THEN TheOnly({ShortestOf(all) : all \in {EditScripts(t1, t2, 2)}})
    ELSE EditScripts(t1, t2, 2)

\* diff_levenshtein: each run of edits between two EQUAL entries counts as
\* the larger of its inserted and its deleted characters
RECURSIVE DiffLevenshteinFrom(_, _, _, _)
DiffLevenshteinFrom(ds, levenshtein, insertions, deletions) ==
    IF ds = <<>> THEN levenshtein + Max({insertions, deletions})
    ELSE IF ds[1].op = DIFF_INSERT
    THEN DiffLevenshteinFrom(Tail(ds), levenshtein,
                             insertions + Len(ds[1].text), deletions)
    ELSE IF ds[1].op = DIFF_DELETE
    THEN DiffLevenshteinFrom(Tail(ds), levenshtein, insertions,
                             deletions + Len(ds[1].text))
    ELSE DiffLevenshteinFrom(Tail(ds),
                             levenshtein + Max({insertions, deletions}), 0, 0)

DiffLevenshtein(ds) == DiffLevenshteinFrom(ds, 0, 0, 0)

\* text[:10000]
CapLength == 10000

\* as Capped, keeping the whole text
CappedNothing(text) == text

Capped(text) == SubSeq(text, 1, Min({Len(text), CapLength}))

\* the possible values of _calculate_levenshtein_distance(text1, text2)
CalculateLevenshteinDistance(t1, t2) ==
    {DiffLevenshtein(ds) : ds \in DiffMainOnly(Capped(t1), Capped(t2))}

----------------------------------------------------------------------------
(* ComparisonResult and PageComparator.compare.                            *)
(*                                                                         *)
(* An entry of key_differences is a record of what its f-string shows:     *)
(* the kind of sentence, the source it names and the formatted values.     *)

\* ComparisonResult(...) as compare() constructs it; raised is the
\* exception compare() ended with, "" when it returned
DefaultResult ==
    [text_similarity |-> Frac(0, 1), levenshtein_distance |-> 0,
     diff_segments |-> <<>>, word_count_diff |-> 0,
     word_count_diff_pct |-> Frac(0, 1), section_overlap |-> Frac(0, 1),
     unique_to_grokipedia |-> <<>>, unique_to_wikipedia |-> <<>>,
     citation_count_grokipedia |-> 0, citation_count_wikipedia |-> 0,
     citation_diff |-> 0, has_infobox_grokipedia |-> FALSE,
     has_infobox_wikipedia |-> FALSE, external_links_grokipedia |-> 0,
     external_links_wikipedia |-> 0, recency_grokipedia |-> None,
     recency_wikipedia |-> None, similarity_category |-> "",
     key_differences |-> <<>>, raised |-> ""]

Abs(n) == IF n < 0 THEN 0 - n ELSE n

AbsFrac(x) == Frac(Abs(x.num), x.den)

\* n / d rounded to an integer, a tie going to the even neighbour
RoundHalfEven(n, d) ==
    LET q == n \div d
        r == n % d
    IN  IF 2 * r < d THEN q
        ELSE IF 2 * r > d THEN q + 1
        ELSE IF q % 2 = 0 THEN q ELSE q + 1

\* f"{x:.2%}", in hundredths of a percent
FormatPercent2(x) == RoundHalfEven(x.num * 10000, x.den)

\* f"{x:.1f}", in tenths
FormatFixed1(x) == RoundHalfEven(x.num * 10, x.den)

\* as WordCountDiff, the other way round
WordCountDiffReversed(g, w) == w.word_count - g.word_count

WordCountDiff(g, w) == g.word_count - w.word_count

\* as PctGuard, letting a word count of 0 through
PctGuardNonNegative(words) == words >= 0

\* if wikipedia_page.word_count > 0
PctGuard(words) == words > 0

\* as CitationDiff, without the sign
CitationDiffUnsigned(cg, cw) == Abs(cg - cw)

CitationDiff(cg, cw) == cg - cw

\* as HasInfobox, by the truth value of the infobox
HasInfoboxTruthy(box) == box # None /\ \E m \in box : DOMAIN m # {}

\* infobox is not None
HasInfobox(box) == box # None

\* as WordCountTrigger, at 25 already
WordCountTriggerInclusive(pct) == FracLe(Frac(25, 1), AbsFrac(pct))

\* abs(result.word_count_diff_pct) > 25
WordCountTrigger(pct) == FracLt(Frac(25, 1), AbsFrac(pct))

\* as CitationTrigger, at 5 already
CitationTriggerInclusive(diff) == Abs(diff) >= 5

\* abs(result.citation_diff) > 5
CitationTrigger(diff) == Abs(diff) > 5

\* as FirstTitles, keeping every title
FirstTitlesAll(titles) == titles

\* titles[:3]
FirstTitles(titles) == SubSeq(titles, 1, Min({Len(titles), 3}))

\* f"{source} has unique sections: {', '.join(unique[:3])}"
SectionsEntry(source, unique) ==
    [kind |-> "sections", source |-> source, titles |-> FirstTitles(unique)]

\* as WithSimilarityFirst, appending the entry
WithSimilarityLast(entry, differences) == differences \o <<entry>>

\* differences.insert(0, entry)
WithSimilarityFirst(entry, differences) == <<entry>> \o differences

\* _identify_key_differences; g and w are result.grokipedia_page and
\* result.wikipedia_page
IdentifyKeyDifferences(r, g, w) ==
    LET length ==
          IF WordCountTrigger(r.word_count_diff_pct)
          THEN IF r.word_count_diff > 0
               THEN <<[kind |-> "words", source |-> "Grokipedia",
                       tenths |-> FormatFixed1(AbsFrac(r.word_count_diff_pct)),
                       first |-> g.word_count, second |-> w.word_count]>>
               ELSE <<[kind |-> "words", source |-> "Wikipedia",
                       tenths |-> FormatFixed1(AbsFrac(r.word_count_diff_pct)),
                       first |-> w.word_count, second |-> g.word_count]>>
          ELSE <<>>
        citation ==
          IF CitationTrigger(r.citation_diff)
          THEN IF r.citation_diff > 0
               THEN <<[kind |-> "citations", source |-> "Grokipedia",
                       more |-> r.citation_diff,
                       first |-> r.citation_count_grokipedia,
                       second |-> r.citation_count_wikipedia]>>
               ELSE <<[kind |-> "citations", source |-> "Wikipedia",
                       more |-> Abs(r.citation_diff),
                       first |-> r.citation_count_wikipedia,
                       second |-> r.citation_count_grokipedia]>>
          ELSE <<>>
        unique_g ==
          IF r.unique_to_grokipedia # <<>>
          THEN <<SectionsEntry("Grokipedia", r.unique_to_grokipedia)>>
          ELSE <<>>
        unique_w ==
          IF r.unique_to_wikipedia # <<>>
          THEN <<SectionsEntry("Wikipedia", r.unique_to_wikipedia)>>
          ELSE <<>>
        infobox ==
          IF r.has_infobox_grokipedia # r.has_infobox_wikipedia
          THEN IF r.has_infobox_grokipedia
               THEN <<[kind |-> "infobox", source |-> "Grokipedia"]>>
               ELSE <<[kind |-> "infobox", source |-> "Wikipedia"]>>
          ELSE <<>>
    IN  WithSimilarityFirst(
            [kind |-> "similarity",
             hundredths |-> FormatPercent2(r.text_similarity),
             category |-> r.similarity_category],
            length \o citation \o unique_g \o unique_w \o infobox)

\* compare() once its calls on the diff library and on list() have given
\* lev, ds, ug and uw
CompareWith(g, w, sim, lev, ds, ug, uw) ==
    IF PctGuard(w.word_count) /\ w.word_count = 0
    THEN [DefaultResult EXCEPT !.raised = "ZeroDivisionError"]
    ELSE
      LET r == [DefaultResult EXCEPT
                  !.text_similarity = sim,
                  !.levenshtein_distance = lev,
                  !.diff_segments = GenerateDiffSegments(ds, 100),
                  !.word_count_diff = WordCountDiff(g, w),
                  !.word_count_diff_pct =
                      IF PctGuard(w.word_count)
                      THEN Frac(WordCountDiff(g, w) * 100, w.word_count)
                      ELSE Frac(0, 1),
                  !.section_overlap =
                      CalculateSectionOverlap(g.sections, w.sections),
                  !.unique_to_grokipedia = ug,
                  !.unique_to_wikipedia = uw,
                  !.citation_count_grokipedia = Len(g.citations),
                  !.citation_count_wikipedia = Len(w.citations),
                  !.citation_diff =
                      CitationDiff(Len(g.citations), Len(w.citations)),
                  !.has_infobox_grokipedia = HasInfobox(g.infobox),
                  !.has_infobox_wikipedia = HasInfobox(w.infobox),
                  !.external_links_grokipedia = Len(g.external_links),
                  !.external_links_wikipedia = Len(w.external_links),
                  !.recency_grokipedia = g.last_modified,
                  !.recency_wikipedia = w.last_modified,
                  !.similarity_category = CategorizeSimilarity(sim)]
      IN  [r EXCEPT !.key_differences = IdentifyKeyDifferences(r, g, w)]

\* the possible values of compare(g, w)
CompareResults(g, w) ==
    {CompareWith(g, w, sim, lev, ds, ug, uw) :
       sim \in {CalculateTextSimilarity(g.text_content, w.text_content)},
       lev \in CalculateLevenshteinDistance(Capped(g.text_content),
                                            Capped(w.text_content)),
       ds \in DiffMain(g.text_content, w.text_content),
       ug \in FindUniqueSections(g.sections, w.sections),
       uw \in FindUniqueSections(w.sections, g.sections)}

\* PageComparator(): self.dmp = diff_match_patch()
NewPageComparator == [dmp |-> "diff_match_patch()"]

\* as PageAfterCompare, had compare() cut the text of the page to the
\* 10000 characters of the edit distance in place
PageAfterCompareCapped(p) == [p EXCEPT !.text_content = Capped(p.text_content)]

\* a page after compare() has read it: compare() and its helpers assign
\* to no attribute of a page
PageAfterCompare(p) == p

\* a comparator after compare(): compare() and its helpers assign to no
\* attribute of self, and the diff library keeps nothing between calls
ComparatorAfterCompare(c) == c

\* compare(g, w) on comparator c with all that it leaves behind: the
\* value returned, the comparator and the two pages
CompareOn(c, g, w) ==
    {[result |-> r, comparator |-> ComparatorAfterCompare(c),
      grokipedia_page |-> PageAfterCompare(g),
      wikipedia_page |-> PageAfterCompare(w)] :
       r \in CompareResults(g, w)}

----------------------------------------------------------------------------
(* compare() calls that run at the same time on one PageComparator.  A     *)
(* call has a frame of its own: its two pages, its ComparisonResult and    *)
(* the statement it is at; the list `diffs` of _generate_diff_segments is  *)
(* a local of the call as well.                                            *)

\* the two calls
Threads == {1, 2}

\* the frame of a call that has not started
NoFrame ==
    [pc |-> "idle", grokipedia_page |-> PageOfText(<<>>),
     wikipedia_page |-> PageOfText(<<>>), result |-> DefaultResult,
     during |-> FALSE]

\* the frame of a call that is entered with two pages; `during` records
\* that the call ran diff_main while the other call had a diff list that
\* it had not yet looped over
FrameOf(g, w) ==
    [pc |-> "similarity", grokipedia_page |-> g, wikipedia_page |-> w,
     result |-> DefaultResult, during |-> FALSE]

\* as DiffsSlot, had the diff list been kept on the comparator
DiffsSlotShared(t) == 1

\* where call t keeps its diff list between diff_main and the clean-up
\* and the loop that follow: in its own frame
DiffsSlot(t) == t

----------------------------------------------------------------------------
(* MetricsAnalyzer (metrics_analyzer.py).  A float is the exact fraction;  *)
(* a division is Divide, which raises ZeroDivisionError on a zero          *)
(* denominator as Python's / does.                                         *)

\* a value returned, and an exception raised in its place
Ok(v) == [raised |-> "", value |-> v]
Raise(exception) == [raised |-> exception, value |-> Frac(0, 1)]

\* n / d on numbers
Divide(n, d) == IF d = 0 THEN Raise("ZeroDivisionError") ELSE Ok(Frac(n, d))

\* min(x, 1.0)
AtMostOne(x) == IF FracLt(Frac(1, 1), x) THEN Frac(1, 1) ELSE x

LOADED_WORDS ==
    << <<"o", "b", "v", "i", "o", "u", "s", "l", "y">>,
       <<"c", "l", "e", "a", "r", "l", "y">>,
       <<"u", "n", "d", "o", "u", "b", "t", "e", "d", "l", "y">>,
       <<"c", "e", "r", "t", "a", "i", "n", "l", "y">>,
       <<"d", "e", "f", "i", "n", "i", "t", "e", "l", "y">>,
       <<"n", "o", "t", "o", "r", "i", "o", "u", "s">>,
       <<"i", "n", "f", "a", "m", "o", "u", "s">>,
       <<"b", "r", "i", "l", "l", "i", "a", "n", "t">>,
       <<"t", "e", "r", "r", "i", "b", "l", "e">>,
       <<"a", "m", "a", "z", "i", "n", "g">>,
       <<"i", "n", "c", "r", "e", "d", "i", "b", "l", "e">>,
       <<"o", "u", "t", "r", "a", "g", "e", "o", "u", "s">>,
       <<"s", "h", "o", "c", "k", "i", "n", "g">>,
       <<"s", "t", "u", "n", "n", "i", "n", "g">>,
       <<"r", "e", "m", "a", "r", "k", "a", "b", "l", "e">> >>

HEDGE_WORDS ==
    << <<"s", "o", "m", "e", " ", "s", "a", "y">>,
       <<"m", "a", "n", "y", " ", "b", "e", "l", "i", "e", "v", "e">>,
       <<"i", "t", " ", "i", "s", " ", "s", "a", "i", "d">>,
       <<"a", "l", "l", "e", "g", "e", "d", "l", "y">>,
       <<"r", "e", "p", "o", "r", "t", "e", "d", "l", "y">>,
       <<"s", "u", "p", "p", "o", "s", "e", "d", "l", "y">>,
       <<"a", "r", "g", "u", "a", "b", "l", "y">>,
       <<"p", "o", "s", "s", "i", "b", "l", "y">>,
       <<"p", "e", "r", "h", "a", "p", "s">>,
       <<"m", "a", "y", "b", "e">>,
       <<"s", "o", "m", "e", " ", "p", "e", "o", "p", "l", "e">>,
       <<"c", "r", "i", "t", "i", "c", "s", " ", "a", "r", "g", "u", "e">>,
       <<"s", "u", "p", "p", "o", "r", "t", "e", "r", "s", " ", "c", "l", "a", "i", "m">> >>

FIRST_PERSON ==
    << <<"i">>,
       <<"m", "e">>,
       <<"m", "y">>,
       <<"m", "i", "n", "e">>,
       <<"w", "e">>,
       <<"u", "s">>,
       <<"o", "u", "r">>,
       <<"o", "u", "r", "s">> >>

positive_words ==
    << <<"g", "o", "o", "d">>,
       <<"g", "r", "e", "a", "t">>,
       <<"e", "x", "c", "e", "l", "l", "e", "n", "t">>,
       <<"p", "o", "s", "i", "t", "i", "v", "e">>,
       <<"s", "u", "c", "c", "e", "s", "s", "f", "u", "l">>,
       <<"b", "e", "n", "e", "f", "i", "c", "i", "a", "l">>,
       <<"i", "m", "p", "o", "r", "t", "a", "n", "t">>,
       <<"s", "i", "g", "n", "i", "f", "i", "c", "a", "n", "t">>,
       <<"v", "a", "l", "u", "a", "b", "l", "e">>,
       <<"n", "o", "t", "a", "b", "l", "e">>,
       <<"r", "e", "m", "a", "r", "k", "a", "b", "l", "e">>,
       <<"i", "n", "n", "o", "v", "a", "t", "i", "v", "e">>,
       <<"l", "e", "a", "d", "i", "n", "g">>,
       <<"p", "r", "o", "m", "i", "n", "e", "n", "t">>,
       <<"i", "n", "f", "l", "u", "e", "n", "t", "i", "a", "l">> >>

negative_words ==
    << <<"b", "a", "d">>,
       <<"p", "o", "o", "r">>,
       <<"n", "e", "g", "a", "t", "i", "v", "e">>,
       <<"f", "a", "i", "l", "e", "d">>,
       <<"h", "a", "r", "m", "f", "u", "l">>,
       <<"d", "e", "t", "r", "i", "m", "e", "n", "t", "a", "l">>,
       <<"i", "n", "s", "i", "g", "n", "i", "f", "i", "c", "a", "n", "t">>,
       <<"m", "i", "n", "o", "r">>,
       <<"c", "o", "n", "t", "r", "o", "v", "e", "r", "s", "i", "a", "l">>,
       <<"c", "r", "i", "t", "i", "c", "i", "z", "e", "d">>,
       <<"d", "i", "s", "p", "u", "t", "e", "d">>,
       <<"q", "u", "e", "s", "t", "i", "o", "n", "a", "b", "l", "e">>,
       <<"p", "r", "o", "b", "l", "e", "m", "a", "t", "i", "c">>,
       <<"f", "l", "a", "w", "e", "d">>,
       <<"i", "n", "f", "e", "r", "i", "o", "r">> >>

\* text[i:].startswith(sub), i counted from 1
OccursAt(text, sub, i) ==
    /\ i + Len(sub) - 1 <= Len(text)
    /\ \A k \in 1..Len(sub) : text[i + k - 1] = sub[k]

RECURSIVE CountFrom(_, _, _)
\* the occurrences of sub in text from position i on that do not overlap,
\* found from the left
CountFrom(text, sub, i) ==
    IF i + Len(sub) - 1 > Len(text) THEN 0
    ELSE IF OccursAt(text, sub, i)
         THEN 1 + CountFrom(text, sub, i + Len(sub))
         ELSE CountFrom(text, sub, i + 1)

\* text.count(sub), sub not empty
Count(text, sub) == CountFrom(text, sub, 1)

RECURSIVE SumOver(_, _)
\* sum(f[i] for i in 1..n)
SumOver(f, n) == IF n = 0 THEN 0 ELSE f[n] + SumOver(f, n - 1)

\* sum(text.count(word) for word in words)
CountAll(text, words) ==
    SumOver([k \in 1..Len(words) |-> Count(text, words[k])], Len(words))

\* the positions where a run of characters outside stops begins
RunStarts(text, stops) ==
    {i \in 1..Len(text) :
       text[i] \notin stops /\ (i = 1 \/ text[i - 1] \in stops)}

\* the end of the run that begins at i
RunEnd(text, stops, i) ==
    Min({j \in i..Len(text) :
           j = Len(text) \/ text[j + 1] \in stops})

RECURSIVE RunsFrom(_, _, _)
\* the runs of characters outside stops that begin at i or later, in order
RunsFrom(text, stops, i) ==
    IF {j \in RunStarts(text, stops) : j >= i} = {} THEN <<>>
    ELSE LET b == Min({j \in RunStarts(text, stops) : j >= i})
             e == RunEnd(text, stops, b)
         IN  <<SubSeq(text, b, e)>> \o RunsFrom(text, stops, e + 1)

\* text.split()
Split(text) == RunsFrom(text, Whitespace, 1)

\* words.count(word) on a list of words
ListCount(words, word) ==
    Cardinality({k \in 1..Len(words) : words[k] = word})

\* the characters that end a sentence: [.!?]
Terminators == {".", "!", "?"}

\* s.strip() is not empty
NotBlank(s) == \E i \in 1..Len(s) : s[i] \notin Whitespace

\* s.strip()
Strip(s) ==
    IF ~NotBlank(s) THEN <<>>
    ELSE SubSeq(s, Min({i \in 1..Len(s) : s[i] \notin Whitespace}),
                   Max({i \in 1..Len(s) : s[i] \notin Whitespace}))

\* _split_sentences: the pieces between runs of terminators, stripped,
\* the empty ones left out
SplitSentences(text) ==
    LET pieces == RunsFrom(text, Terminators, 1)
    IN  [k \in 1..Len(SelectSeq(pieces, NotBlank)) |->
            Strip(SelectSeq(pieces, NotBlank)[k])]

Vowels == {"a", "e", "i", "o", "u", "y"}

\* _count_syllables: the groups of vowels, less one for an e at the end,
\* at least 1
CountSyllables(word) ==
    LET w == LowerText(word)
        groups == Cardinality(RunStarts(w, {c \in {w[i] : i \in 1..Len(w)} :
                                               c \notin Vowels}))
        count == IF Len(w) > 0 /\ w[Len(w)] = "e" THEN groups - 1 ELSE groups
    IN  IF count < 1 THEN 1 ELSE count

\* max(0.0, min(100.0, score))
Clamp100(x) ==
    IF FracLt(x, Frac(0, 1)) THEN Frac(0, 1)
    ELSE IF FracLt(Frac(100, 1), x) THEN Frac(100, 1) ELSE x

\* _calculate_readability
CalculateReadability(text) ==
    LET sentences == SplitSentences(text)
        words == Split(text)
        total_words == Len(words)
        total_sentences == Len(sentences)
        total_syllables ==
            SumOver([k \in 1..Len(words) |-> CountSyllables(words[k])],
                    Len(words))
    IN  IF sentences = <<>> THEN Ok(Frac(0, 1))
        ELSE IF total_words = 0 \/ total_sentences = 0 THEN Ok(Frac(0, 1))
        ELSE IF Divide(total_words, total_sentences).raised # ""
             THEN Divide(total_words, total_sentences)
        ELSE IF Divide(total_syllables, total_words).raised # ""
             THEN Divide(total_syllables, total_words)
        ELSE \* 206.835 - 1.015 * (w / s) - 84.6 * (y / w)
             Ok(Clamp100(Frac(206835 * total_sentences * total_words
                                - 1015 * total_words * total_words
                                - 84600 * total_syllables * total_sentences,
                              1000 * total_sentences * total_words)))

\* as SentencesGuard, with no check
SentencesGuardNone(sentences) == FALSE

\* `if not sentences` of _calculate_avg_sentence_length
SentencesGuard(sentences) == sentences = <<>>

\* _calculate_avg_sentence_length
CalculateAvgSentenceLength(text) ==
    LET sentences == SplitSentences(text)
        total_words ==
            SumOver([k \in 1..Len(sentences) |-> Len(Split(sentences[k]))],
                    Len(sentences))
    IN  IF SentencesGuard(sentences) THEN Ok(Frac(0, 1))
        ELSE Divide(total_words, Len(sentences))

\* _calculate_complexity
CalculateComplexity(text) ==
    LET words == Split(text)
        letters == SumOver([k \in 1..Len(words) |-> Len(words[k])], Len(words))
        avg_word_length == Divide(letters, Len(words))
        avg_sentence_length == CalculateAvgSentenceLength(text)
        word_complexity ==
            AtMostOne(Frac(avg_word_length.value.num,
                           avg_word_length.value.den * 10))
        sentence_complexity ==
            AtMostOne(Frac(avg_sentence_length.value.num,
                           avg_sentence_length.value.den * 30))
    IN  IF words = <<>> THEN Ok(Frac(0, 1))
        ELSE IF avg_word_length.raised # "" THEN avg_word_length
        ELSE IF avg_sentence_length.raised # "" THEN avg_sentence_length
        ELSE Ok(Frac(word_complexity.num * sentence_complexity.den
                       + sentence_complexity.num * word_complexity.den,
                     2 * word_complexity.den * sentence_complexity.den))

\* _calculate_simple_sentiment, on the lowered text
CalculateSimpleSentiment(text) ==
    LET positive_count == CountAll(text, positive_words)
        negative_count == CountAll(text, negative_words)
        total == positive_count + negative_count
    IN  IF total = 0 THEN Ok(Frac(0, 1))
        ELSE Divide(positive_count - negative_count, total)

\* QualityMetrics()
DefaultQualityMetrics ==
    [raised |-> "", readability_score |-> Frac(0, 1),
     citation_density |-> Frac(0, 1), avg_sentence_length |-> Frac(0, 1),
     complexity_score |-> Frac(0, 1)]

\* BiasMetrics()
DefaultBiasMetrics ==
    [raised |-> "", sentiment_polarity |-> Frac(0, 1),
     subjectivity_score |-> Frac(0, 1), loaded_language_count |-> 0,
     first_person_count |-> 0, hedge_words_count |-> 0]

\* the first exception among the outcomes, "" for none
FirstRaised(outcomes) ==
    IF \A k \in 1..Len(outcomes) : outcomes[k].raised = "" THEN ""
    ELSE outcomes[Min({k \in 1..Len(outcomes) :
                         outcomes[k].raised # ""})].raised

\* calculate_quality_metrics
CalculateQualityMetrics(text, citations) ==
    LET readability == CalculateReadability(text)
        word_count == Len(Split(text))
        density == IF word_count > 0
                   THEN Divide(citations * 1000, word_count)
                   ELSE Ok(Frac(0, 1))
        sentence_length == CalculateAvgSentenceLength(text)
        complexity == CalculateComplexity(text)
        raised == FirstRaised(<<readability, density, sentence_length,
                                complexity>>)
    IN  IF text = <<>> THEN DefaultQualityMetrics
        ELSE IF raised # ""
             THEN [DefaultQualityMetrics EXCEPT !.raised = raised]
        ELSE [raised |-> "", readability_score |-> readability.value,
              citation_density |-> density.value,
              avg_sentence_length |-> sentence_length.value,
              complexity_score |-> complexity.value]

\* calculate_bias_metrics
CalculateBiasMetrics(text) ==
    LET text_lower == LowerText(text)
        loaded == CountAll(text_lower, LOADED_WORDS)
        words == Split(text_lower)
        first_person ==
            SumOver([k \in 1..Len(FIRST_PERSON) |->
                        ListCount(words, FIRST_PERSON[k])],
                    Len(FIRST_PERSON))
        hedge == CountAll(text_lower, HEDGE_WORDS)
        sentiment == CalculateSimpleSentiment(text_lower)
        total_words == Len(words)
        subjectivity ==
            IF total_words > 0
            THEN Divide((loaded + first_person + hedge) * 10, total_words)
            ELSE Ok(Frac(0, 1))
        raised == FirstRaised(<<sentiment, subjectivity>>)
    IN  IF text = <<>> THEN DefaultBiasMetrics
        ELSE IF raised # ""
             THEN [DefaultBiasMetrics EXCEPT !.raised = raised]
        ELSE [raised |-> "", sentiment_polarity |-> sentiment.value,
              subjectivity_score |-> AtMostOne(subjectivity.value),
              loaded_language_count |-> loaded,
              first_person_count |-> first_person,
              hedge_words_count |-> hedge]

----------------------------------------------------------------------------
(* TopicSampler (topic_sampler.py) and the module random it draws from.    *)
(* The generator of random is one state of the process: random.seed sets   *)
(* it, every draw advances it.  The numbers a seed gives are a fixed       *)
(* sequence, `stream`; a draw below n takes the next number of it modulo   *)
(* n.                                                                      *)

\* the samplers of one process
Samplers == {1, 2}

\* self.config['sampling'].get('random_seed', 42)
DefaultSeed == 42

\* random.seed(seed)
Seed(seed) == [seed |-> seed, position |-> 0]

\* a configuration with no category and no seed of its own
EmptyConfig == [random_seed |-> None, categories |-> <<>>]

\* a sampler that is not constructed
NoSampler == [constructed |-> FALSE, config |-> EmptyConfig, random_seed |-> 0]

\* no sample_topics call yet
NotSampled == [raised |-> "", topics |-> <<>>]

\* random's _randbelow(n) after `drawn` further draws, n > 0
RandBelow(numbers, state, drawn, n) ==
    numbers[state.position + drawn + 1] % n

RECURSIVE SamplePool(_, _, _, _, _, _)
\* the loop of random.sample: result[i] = pool[j]; pool[j] = pool[n-i-1]
\* for j = _randbelow(n - i), i from `i` up to k - 1
SamplePool(numbers, state, pool, n, k, i) ==
    IF i >= k THEN <<>>
    ELSE LET j == RandBelow(numbers, state, i, n - i)
         IN  <<pool[j + 1]>>
             \o SamplePool(numbers, state,
                           [pool EXCEPT ![j + 1] = pool[n - i]], n, k, i + 1)

\* random.sample(population, k), 0 <= k <= len(population): k draws
RandomSample(numbers, state, population, k) ==
    SamplePool(numbers, state, population, Len(population), k, 0)

\* random.choices(population, k=k): population[floor(random() * n)], k
\* times
RandomChoices(numbers, state, population, k) ==
    [i \in 1..k |->
        population[RandBelow(numbers, state, i - 1, Len(population)) + 1]]

\* int(total_size * weight) for a weight that is a fraction: towards zero
IntOfProduct(total, weight) ==
    IF total * weight.num >= 0
    THEN (total * weight.num) \div weight.den
    ELSE 0 - ((0 - total * weight.num) \div weight.den)

\* SamplingCategory(name, weight, topics)
SamplingCategory(name, weight, topics) ==
    [name |-> name, weight |-> weight, topics |-> topics]

\* get_categories: the categories of the configuration in its order
GetCategories(config) == config.categories

\* the draws sample_topics makes for one category
DrawsFor(c, total) ==
    LET size == IntOfProduct(total, c.weight)
    IN  IF c.topics = <<>> \/ size < 0 THEN 0
        ELSE IF Len(c.topics) >= size THEN size
        ELSE size - Len(c.topics)

\* as SampledOf, with the random repeats alone
SampledOfRepeatsOnly(numbers, state, c, total) ==
    LET size == IntOfProduct(total, c.weight)
    IN  IF Len(c.topics) >= size
        THEN RandomSample(numbers, state, c.topics, size)
        ELSE RandomChoices(numbers, state, c.topics, size - Len(c.topics))

\* what the body of the loop of sample_topics assigns to `sampled`
SampledOf(numbers, state, c, total) ==
    LET size == IntOfProduct(total, c.weight)
    IN  IF Len(c.topics) >= size
        THEN RandomSample(numbers, state, c.topics, size)
        ELSE c.topics
             \o RandomChoices(numbers, state, c.topics, size - Len(c.topics))

RECURSIVE SampleFrom(_, _, _, _, _)
\* the loop of sample_topics from category k on: the entries added to
\* sampled_topics in order, the state of random after them, and the
\* exception that ended the loop, "" for none
SampleFrom(numbers, state, categories, total, k) ==
    IF k > Len(categories)
    THEN [raised |-> "", topics |-> <<>>, state |-> state]
    ELSE LET c == categories[k]
             size == IntOfProduct(total, c.weight)
             after == [state EXCEPT !.position = @ + DrawsFor(c, total)]
             rest == SampleFrom(numbers, after, categories, total, k + 1)
         IN  IF c.topics = <<>>
             THEN SampleFrom(numbers, state, categories, total, k + 1)
             ELSE IF size < 0
             THEN \* random.sample with a negative k
                  [raised |-> "ValueError", topics |-> <<>>, state |-> state]
             ELSE [rest EXCEPT !.topics =
                     <<[name |-> c.name,
                        topics |-> SampledOf(numbers, state, c, total)]>>
                     \o @]

\* sample_topics(total_size)
SampleTopicsOf(numbers, state, config, total) ==
    SampleFrom(numbers, state, GetCategories(config), total, 1)

RECURSIVE Flatten(_)
\* the loop of get_all_topics_flat: (category, topic) for every topic
Flatten(sampled_topics) ==
    IF sampled_topics = <<>> THEN <<>>
    ELSE [i \in 1..Len(sampled_topics[1].topics) |->
            <<sampled_topics[1].name, sampled_topics[1].topics[i]>>]
         \o Flatten(Tail(sampled_topics))

\* the position of category `name` in a configuration, 0 for none
IndexOf(config, name) ==
    IF \E k \in 1..Len(config.categories) : config.categories[k].name = name
    THEN CHOOSE k \in 1..Len(config.categories) :
            config.categories[k].name = name
    ELSE 0

\* the category add_custom_topic adds to, whatever its argument
TargetCategory(category_arg) == "custom"

\* `if topic not in ...['topics']`
AppendGuard(topics, topic) == \A i \in 1..Len(topics) : topics[i] # topic

\* add_custom_topic(topic, category)
AddCustomTopicTo(config, topic, category_arg) ==
    LET name == TargetCategory(category_arg)
        with == IF IndexOf(config, "custom") = 0
                THEN [config EXCEPT !.categories =
                        Append(@, SamplingCategory("custom", Frac(0, 1), <<>>))]
                ELSE config
        k == IndexOf(with, name)
    IN  IF k = 0 THEN with
        ELSE IF AppendGuard(with.categories[k].topics, topic)
        THEN [with EXCEPT !.categories[k].topics = Append(@, topic)]
        ELSE with

----------------------------------------------------------------------------
(* BaseScraper (base_scraper.py:37-136).  Time is in whole seconds; a      *)
(* statement takes no time, a GET request and a sleep take theirs.         *)

\* time.time() when the scraper is constructed: more than any delay after
\* the 0 that last_request_time starts with
Epoch == 100

\* BaseScraper(rate_limit_delay, max_retries)
NewScraper(rate_limit_delay, max_retries) ==
    [rate_limit_delay |-> rate_limit_delay, max_retries |-> max_retries,
     last_request_time |-> 0]

\* no _fetch_page call in progress
NoFetch == [pc |-> "idle", attempt |-> 0]

\* the seconds _rate_limit sleeps at time t
RateLimitSleep(sc, t) ==
    IF t - sc.last_request_time < sc.rate_limit_delay
    THEN sc.rate_limit_delay - (t - sc.last_request_time)
    ELSE 0

\* as InRange, with one attempt more
InRangeInclusive(sc, attempt) == attempt <= sc.max_retries

\* attempt in range(self.max_retries)
InRange(sc, attempt) == attempt < sc.max_retries

\* the else branch of `if attempt < self.max_retries - 1`
IsLastAttempt(sc, attempt) == ~(attempt < sc.max_retries - 1)

\* as Backoff, one second every time
BackoffConstant(attempt) == 1

\* 2 ** attempt
Backoff(attempt) == 2 ^ attempt

----------------------------------------------------------------------------
(* ComparisonOrchestrator (main.py:21-102).  What a scraper and the        *)
(* comparator do with a topic is their outcome: a page, None or an         *)
(* exception for fetch_and_parse, a result or an exception for compare.    *)

\* the page a scraper returns for a topic, as far as the orchestrator
\* touches it
ScrapedPage(source, topic) ==
    [title |-> topic, metadata |-> [source |-> source, category |-> None]]

\* `if category:` result.*_page.metadata['category'] = category
WithCategory(p, category_arg) ==
    IF category_arg = None THEN p
    ELSE [p EXCEPT !.metadata.category = category_arg]

\* what _compare_topic returns when both pages are there and compare
\* returns
ComparedTopic(topic, category_arg) ==
    [topic |-> topic,
     grokipedia_page |-> WithCategory(ScrapedPage("grokipedia", topic),
                                      category_arg),
     wikipedia_page |-> WithCategory(ScrapedPage("wikipedia", topic),
                                     category_arg)]

\* as IndexAfterError, leaving the loop
IndexAfterErrorLeaves(k, n) == n + 1

\* the pair the loop goes to after `except Exception: ... continue` at
\* pair k of n
IndexAfterError(k, n) == k + 1

----------------------------------------------------------------------------
(* Inputs.                                                                 *)

\* a text longer than the 200 elements of autojunk and than the 500
\* characters a DiffSegment keeps
LongTexts == {Repeat("a", 500) \o Repeat("b", k) : k \in 0..MaxOver}

\* a long text against itself and against the empty text
LongAndSame == {<<t, t>> : t \in LongTexts}
LongAndEmpty == {<<t, <<>>>> : t \in LongTexts} \cup {<<<<>>, t>> : t \in LongTexts}

\* pairs of texts for the similarity measure: every pair of short texts,
\* and a long text against a long one and against the empty text
ShortSimPairs == TextsUpTo(MaxLen) \X TextsUpTo(MaxLen)
LongSimPairs == (LongTexts \X LongTexts) \cup LongAndEmpty

\* pairs of texts for the diff segmenter: every pair of short texts over
\* two letters, and a long text against itself and against the empty text
DiffTexts == UNION {[1..k -> {"a", "b"}] : k \in 0..MaxDiffLen}

ShortDiffPairs == DiffTexts \X DiffTexts
LongDiffPairs == LongAndSame \cup LongAndEmpty

\* max_segments arguments: small ones, and the default of 100
Caps == (1..MaxCap) \cup {100}

Titles == 1..MaxTitles
Bodies == {"x", "y"}
SectionMaps == UNION {[S -> Bodies] : S \in SUBSET Titles}

\* floats around the bucket boundaries, in millionths
Scores ==
    {Frac(n, 1000000) :
       n \in {10000 * k : k \in (0 - 10)..110}
              \cup {599999, 600000, 600001, 849999, 850000, 850001}}

\* texts of pages: the empty text, one word, two words, and two
\* three-letter texts that share one letter
PageTexts ==
    {<<>>, <<"a">>, <<"a", " ", "b">>, <<"a", "a", "b">>, <<"b", "c", "c">>}

\* texts that reach and pass the 10000 characters of the edit distance
LongPageTexts == {Repeat("a", CapLength) \o Repeat("b", k) : k \in 0..MaxOver}

\* pages that differ in their text only: every pair of short texts, and a
\* long text against a long one and against the empty text
TextPagePairs ==
    {<<PageOfText(p[1]), PageOfText(p[2])>> :
       p \in (PageTexts \X PageTexts)
              \cup (LongPageTexts \X LongPageTexts)
              \cup {<<t, <<>>>> : t \in LongPageTexts}
              \cup {<<<<>>, t>> : t \in LongPageTexts}}

\* pages for a comparator that serves several calls: the pairs of pages
\* that differ in their text only and have few diffs, a long text being
\* one of 10000 characters and coming with a longer one only
RepeatPagePairs ==
    {p \in TextPagePairs :
       /\ Len(p[1].text_content) >= CapLength
            => /\ Len(p[1].text_content) = CapLength
               /\ Len(p[2].text_content) > CapLength
       /\ Cardinality(DiffMain(p[1].text_content, p[2].text_content)) <= 2}

\* word counts around the 25 % of a difference, 0 for none supplied
WordCounts == {0, 3, 4, 5}
\* citation counts, with differences of 1, 5, 6, 10 and 11
CitationCounts == {0, 5, 10, 11}
\* no infobox, an empty one and one with an entry
Infoboxes == {None} \cup {Some(m) : m \in UNION {[S -> {"x"}] : S \in SUBSET {"born"}}}
Timestamps == {None, Some("2025-01-01")}

\* pages without text that differ in their counts, infobox and timestamp
CountPages ==
    {PageContent(<<>>, NoSections, ListOfLen(c), box, <<>>, modified, words) :
       words \in WordCounts, c \in CitationCounts, box \in Infoboxes,
       modified \in Timestamps}

\* sections mappings whose titles are consecutive
PageSections == {[t \in j..k |-> "x"] : j \in Titles, k \in Titles}

\* pages without text that differ in their sections and links, plain
\* (3 words, no citation, no infobox) or rich (5 words, 6 citations, an
\* empty infobox)
SectionPages ==
    {PageContent(<<>>, sects, ListOfLen(kind[2]), kind[3], ListOfLen(links),
                 None, kind[1]) :
       sects \in PageSections, links \in 0..1,
       kind \in {<<3, 0, None>>, <<5, 6, Some(<<>>)>>}}

\* pages for calls at the same time: short texts with few diffs, and
\* plain and rich pages with the first section or none
ConcPagePairs ==
    {p \in RepeatPagePairs : Len(p[1].text_content) < CapLength
                              /\ Len(p[2].text_content) < CapLength}
    \cup {p \in SectionPages \X SectionPages :
            \A k \in 1..2 : /\ DOMAIN p[k].sections \subseteq {1}
                            /\ p[k].external_links = <<>>}

\* the most pieces a text for a MetricsAnalyzer is made of
MaxPieces == 3

\* words the analyzer counts, a capital, whitespace and a full stop
Pieces ==
    { <<"g", "o", "o", "d">>, <<"b", "A", "d">>, <<"i">>,
      <<"m", "a", "y", "b", "e">>, <<"a", "m", "a", "z", "i", "n", "g">>,
      <<" ">>, <<".">> }

RECURSIVE TextsOfPieces(_)
\* the texts made of at most n pieces
TextsOfPieces(n) ==
    IF n = 0 THEN {<<>>}
    ELSE TextsOfPieces(n - 1)
         \cup {t \o q : t \in TextsOfPieces(n - 1), q \in Pieces}

\* texts for a MetricsAnalyzer: empty, whitespace only, punctuation only,
\* and words with and without a sentence end
MetricTexts == TextsOfPieces(MaxPieces)

\* citation counts handed to it
MetricCitations == {0, 2}

\* the largest total_size asked for
MaxTotal == 2

\* how far the numbers of a seed are followed
MaxDraws == 4

\* a category with weight num/den
Category(name, num, den, topics) ==
    SamplingCategory(name, Frac(num, den), topics)

\* configurations: weights that add up to 1 with more topics than a
\* sample takes; a category with fewer topics than its share, one without
\* topics and a custom category of weight 0.0 present from the start; and
\* weights written as 2 to 1
Configurations ==
    { [random_seed |-> None,
       categories |-> <<Category("science", 1, 2, <<"a", "b", "c">>),
                        Category("history", 1, 2, <<"x">>)>>],
      [random_seed |-> Some(7),
       categories |-> <<Category("science", 1, 1, <<"a">>),
                        Category("people", 0, 1, <<>>),
                        Category("custom", 0, 1, <<"x", "y">>)>>],
      [random_seed |-> None,
       categories |-> <<Category("science", 2, 1, <<"a">>),
                        Category("history", 1, 1, <<"x">>)>>] }

\* total sizes: none, odd and even ones, and a negative one
TotalSizes == {0 - 1} \cup 0..MaxTotal

\* the numbers a seed can give, each in 0..1
Streams == [1..MaxDraws -> 0..1]

\* the topics and the categories add_custom_topic is called with
CustomTopics == {"T"}
CustomCategories == {"custom", "science"}

\* the most retries a scraper is constructed with
MaxRetries == 3

\* max_retries of a scraper: none, one, and more
RetryLimits == 0..MaxRetries

\* rate_limit_delay of a scraper, in seconds
RateLimitDelays == {0, 2, 3}

\* the seconds a GET request takes until it returns or raises
Latencies == {0, 1}

\* the seconds between two fetch_and_parse calls
Pauses == {0, 1, 3}

\* the _fetch_page calls followed
Fetches == {1, 2}

\* response.text of a request that succeeds
ResponseTexts == {"<html>"}

\* the most topics run_comparison is given
MaxTopics == 3

\* the topics and the categories they come with: None for topics given by
\* name, the category for sampled ones
TopicNames == {"A", "B"}
TopicCategories == {None, Some("science")}

\* the lists run_comparison goes through: no category for any pair, or a
\* category for every pair
TopicLists ==
    UNION {{[k \in 1..n |-> <<c, f[k]>>] : f \in [1..n -> TopicNames],
                                           c \in TopicCategories}
             : n \in 0..MaxTopics}

\* self.results when run_comparison begins: empty, or with the result of
\* an earlier run
EarlierResults == {<<>>, <<ComparedTopic("A", None)>>}

\* texts of words and spaces for a PageContent on its own
WordTexts == UNION {[1..k -> {"a", " "}] : k \in 0..MaxWordLen}

\* the variables a specification does not use stay at these values
IdlePages    == /\ grokipedia_page = PageOfText(<<>>)
                /\ wikipedia_page = PageOfText(<<>>)
                /\ result = DefaultResult /\ swapped = DefaultResult
IdlePage     == page = PageOfText(<<>>) /\ word_count_arg = 0
IdleRepeat   == /\ comparator = NewPageComparator /\ calls = 0
                /\ given = <<PageOfText(<<>>), PageOfText(<<>>)>>
                /\ fresh = DefaultResult
IdleConc     == /\ invocation = [t \in Threads |-> NoFrame]
                /\ scratch = [t \in Threads |-> <<>>]
IdleMetrics  == /\ analysed_text = <<>> /\ citation_count = 0
                /\ quality = DefaultQualityMetrics
                /\ bias = DefaultBiasMetrics
IdleSampler  == /\ configuration = EmptyConfig /\ total_size = 0
                /\ stream = <<>> /\ random_state = Seed(DefaultSeed)
                /\ samplers = [i \in Samplers |-> NoSampler]
                /\ sampled = [i \in Samplers |-> NotSampled]
                /\ flat = [i \in Samplers |-> <<>>]
                /\ events = <<>>
IdleScraper  == /\ now = Epoch /\ scraper = NewScraper(2, 3)
                /\ fetch = NoFetch
                /\ requests = <<>> /\ sleeps = <<>> /\ fetched = <<>>
IdleOrchestrator == /\ topic_list = <<>> /\ loop_index = 1
                    /\ results = <<>> /\ results_before = <<>>
                    /\ processed = <<>>
IdleAfterScraper == IdleOrchestrator
IdleAfterSampler == IdleScraper /\ IdleAfterScraper
IdleAfterMetrics == IdleSampler /\ IdleAfterSampler
IdleAfterConc == IdleMetrics /\ IdleAfterMetrics
IdleAfterRepeat == IdleConc /\ IdleAfterConc
IdleLater    == IdleRepeat /\ IdleAfterRepeat
IdleText     == text1 = <<>> /\ text2 = <<>>
IdleSim      == similarity = Frac(0, 1) /\ reversed = Frac(0, 1)
IdleDiff     == max_segments = 100 /\ diffs = <<>> /\ segments = <<>>
IdleSections == /\ sections1 = NoSections /\ sections2 = NoSections
                /\ overlap = Frac(0, 1) /\ unique1 = <<>> /\ unique2 = <<>>
IdleScore    == score = Frac(0, 1)

----------------------------------------------------------------------------
(* The similarity measure: both argument orders of                         *)
(* _calculate_text_similarity on one pair of texts, and the bucket of the  *)
(* value as compare() takes it (page_comparator.py:91-94 and :146).        *)

InitSim ==
    /\ \/ \E p \in ShortSimPairs : text1 = p[1] /\ text2 = p[2]
       \/ \E p \in LongSimPairs : text1 = p[1] /\ text2 = p[2]
    /\ IdleSim /\ category = ""
    /\ IdleDiff /\ IdleSections /\ IdleScore
    /\ IdlePages /\ IdlePage
    /\ IdleLater
    /\ returned = {}

TextSimilarity ==
    /\ "similarity" \notin returned
    /\ similarity' = CalculateTextSimilarity(text1, text2)
    /\ returned' = returned \cup {"similarity"}
    /\ UNCHANGED <<text1, text2, reversed, category, max_segments, diffs,
                   segments, sections1, sections2, overlap, unique1, unique2,
                   score>>
    /\ UNCHANGED pageVars
    /\ UNCHANGED laterVars

TextSimilarityReversed ==
    /\ "similarity" \in returned /\ "reversed" \notin returned
    /\ reversed' = CalculateTextSimilarity(text2, text1)
    /\ returned' = returned \cup {"reversed"}
    /\ UNCHANGED <<text1, text2, similarity, category, max_segments, diffs,
                   segments, sections1, sections2, overlap, unique1, unique2,
                   score>>
    /\ UNCHANGED pageVars
    /\ UNCHANGED laterVars

CategorizeTextSimilarity ==
    /\ "reversed" \in returned /\ "category" \notin returned
    /\ category' = CategorizeSimilarity(similarity)
    /\ returned' = returned \cup {"category"}
    /\ UNCHANGED <<text1, text2, similarity, reversed, max_segments, diffs,
                   segments, sections1, sections2, overlap, unique1, unique2,
                   score>>
    /\ UNCHANGED pageVars
    /\ UNCHANGED laterVars

NextSim == TextSimilarity \/ TextSimilarityReversed \/ CategorizeTextSimilarity

SpecSim == InitSim /\ [][NextSim]_vars

----------------------------------------------------------------------------
(* The diff segmenter: one call of _generate_diff_segments.                *)

InitDiff ==
    /\ \/ \E p \in ShortDiffPairs : text1 = p[1] /\ text2 = p[2]
       \/ \E p \in LongDiffPairs : text1 = p[1] /\ text2 = p[2]
    /\ \/ max_segments = 100
       \/ max_segments \in Caps
    /\ diffs = <<>> /\ segments = <<>>
    /\ IdleSim /\ category = "" /\ IdleSections /\ IdleScore
    /\ IdlePages /\ IdlePage
    /\ IdleLater
    /\ returned = {}

GenerateSegments ==
    /\ "segments" \notin returned
    /\ \E ds \in DiffMain(text1, text2) :
         /\ diffs' = ds
         /\ segments' = GenerateDiffSegments(ds, max_segments)
    /\ returned' = returned \cup {"segments"}
    /\ UNCHANGED <<text1, text2, similarity, reversed, category, max_segments,
                   sections1, sections2, overlap, unique1, unique2, score>>
    /\ UNCHANGED pageVars
    /\ UNCHANGED laterVars

NextDiff == GenerateSegments

SpecDiff == InitDiff /\ [][NextDiff]_vars

----------------------------------------------------------------------------
(* The section comparison: _calculate_section_overlap and both argument    *)
(* orders of _find_unique_sections, as compare() calls them                *)
(* (page_comparator.py:114-127).                                           *)

InitSections ==
    /\ sections1 \in SectionMaps /\ sections2 \in SectionMaps
    /\ overlap = Frac(0, 1) /\ unique1 = <<>> /\ unique2 = <<>>
    /\ IdleText /\ IdleSim /\ category = "" /\ IdleDiff /\ IdleScore
    /\ IdlePages /\ IdlePage
    /\ IdleLater
    /\ returned = {}

SectionOverlap ==
    /\ "overlap" \notin returned
    /\ overlap' = CalculateSectionOverlap(sections1, sections2)
    /\ returned' = returned \cup {"overlap"}
    /\ UNCHANGED <<text1, text2, similarity, reversed, category, max_segments,
                   diffs, segments, sections1, sections2, unique1, unique2,
                   score>>
    /\ UNCHANGED pageVars
    /\ UNCHANGED laterVars

UniqueToFirst ==
    /\ "overlap" \in returned /\ "unique1" \notin returned
    /\ unique1' \in FindUniqueSections(sections1, sections2)
    /\ returned' = returned \cup {"unique1"}
    /\ UNCHANGED <<text1, text2, similarity, reversed, category, max_segments,
                   diffs, segments, sections1, sections2, overlap, unique2,
                   score>>
    /\ UNCHANGED pageVars
    /\ UNCHANGED laterVars

UniqueToSecond ==
    /\ "unique1" \in returned /\ "unique2" \notin returned
    /\ unique2' \in FindUniqueSections(sections2, sections1)
    /\ returned' = returned \cup {"unique2"}
    /\ UNCHANGED <<text1, text2, similarity, reversed, category, max_segments,
                   diffs, segments, sections1, sections2, overlap, unique1,
                   score>>
    /\ UNCHANGED pageVars
    /\ UNCHANGED laterVars

NextSections == SectionOverlap \/ UniqueToFirst \/ UniqueToSecond

SpecSections == InitSections /\ [][NextSections]_vars

----------------------------------------------------------------------------
(* The bucket of a float: one call of _categorize_similarity.              *)

InitCat ==
    /\ score \in Scores
    /\ category = ""
    /\ IdleText /\ IdleSim /\ IdleDiff /\ IdleSections
    /\ IdlePages /\ IdlePage
    /\ IdleLater
    /\ returned = {}

Categorize ==
    /\ "category" \notin returned
    /\ category' = CategorizeSimilarity(score)
    /\ returned' = returned \cup {"category"}
    /\ UNCHANGED <<text1, text2, similarity, reversed, max_segments, diffs,
                   segments, sections1, sections2, overlap, unique1, unique2,
                   score>>
    /\ UNCHANGED pageVars
    /\ UNCHANGED laterVars

NextCat == Categorize

SpecCat == InitCat /\ [][NextCat]_vars

----------------------------------------------------------------------------
(* compare() on one pair of pages, in both argument orders                 *)
(* (page_comparator.py:73-151).  A call reads its two pages and the        *)
(* comparator and writes a new ComparisonResult.                           *)

InitCompare ==
    /\ \/ \E p \in TextPagePairs :
            grokipedia_page = p[1] /\ wikipedia_page = p[2]
       \/ \E g \in CountPages, w \in CountPages :
            grokipedia_page = g /\ wikipedia_page = w
       \/ \E g \in SectionPages, w \in SectionPages :
            grokipedia_page = g /\ wikipedia_page = w
    /\ result = DefaultResult /\ swapped = DefaultResult
    /\ IdleText /\ IdleSim /\ category = "" /\ IdleDiff /\ IdleSections
    /\ IdleScore /\ IdlePage
    /\ IdleLater
    /\ returned = {}

Compare ==
    /\ "compare" \notin returned
    /\ result' \in CompareResults(grokipedia_page, wikipedia_page)
    /\ returned' = returned \cup {"compare"}
    /\ UNCHANGED <<grokipedia_page, wikipedia_page, swapped, page,
                   word_count_arg>>
    /\ UNCHANGED funVars
    /\ UNCHANGED laterVars

CompareSwapped ==
    /\ "swapped" \notin returned
    /\ swapped' \in CompareResults(wikipedia_page, grokipedia_page)
    /\ returned' = returned \cup {"swapped"}
    /\ UNCHANGED <<grokipedia_page, wikipedia_page, result, page,
                   word_count_arg>>
    /\ UNCHANGED funVars
    /\ UNCHANGED laterVars

NextCompare == Compare \/ CompareSwapped

SpecCompare == InitCompare /\ [][NextCompare]_vars

----------------------------------------------------------------------------
(* A PageContent record: its construction, and assignments to its          *)
(* text_content afterwards (base_scraper.py:14-34; the dataclass is not    *)
(* frozen and has no __setattr__).                                         *)

InitPage ==
    /\ \E text \in WordTexts, words \in 0..2 :
         /\ page = PageContent(text, NoSections, <<>>, None, <<>>, None, words)
         /\ word_count_arg = words
    /\ IdleText /\ IdleSim /\ category = "" /\ IdleDiff /\ IdleSections
    /\ IdleScore /\ IdlePages
    /\ IdleLater
    /\ returned = {}

\* page.text_content = text
AssignTextContent ==
    /\ \E text \in WordTexts : page' = [page EXCEPT !.text_content = text]
    /\ returned' = returned \cup {"text_content"}
    /\ UNCHANGED <<grokipedia_page, wikipedia_page, result, swapped,
                   word_count_arg>>
    /\ UNCHANGED funVars
    /\ UNCHANGED laterVars

NextPage == AssignTextContent

SpecPage == InitPage /\ [][NextPage]_vars

----------------------------------------------------------------------------
(* One PageComparator serving a sequence of compare() calls on a pair of   *)
(* pages, in either argument order, and a fresh PageComparator called on   *)
(* the same pair (page_comparator.py:70-151).                              *)

InitRepeat ==
    /\ \/ \E p \in RepeatPagePairs :
            grokipedia_page = p[1] /\ wikipedia_page = p[2]
       \/ \E g \in SectionPages, w \in SectionPages :
            /\ g.external_links = <<>> /\ w.external_links = <<>>
            /\ grokipedia_page = g /\ wikipedia_page = w
    /\ given = <<grokipedia_page, wikipedia_page>>
    /\ comparator = NewPageComparator /\ calls = 0
    /\ result = DefaultResult /\ swapped = DefaultResult
    /\ fresh = DefaultResult
    /\ IdleText /\ IdleSim /\ category = "" /\ IdleDiff /\ IdleSections
    /\ IdleScore /\ IdlePage
    /\ IdleAfterRepeat
    /\ returned = {}

\* result = comparator.compare(grokipedia_page, wikipedia_page)
CompareAgain ==
    /\ calls < MaxCalls
    /\ \E out \in CompareOn(comparator, grokipedia_page, wikipedia_page) :
         /\ result' = out.result
         /\ comparator' = out.comparator
         /\ grokipedia_page' = out.grokipedia_page
         /\ wikipedia_page' = out.wikipedia_page
    /\ calls' = calls + 1
    /\ returned' = returned \cup {"compare"}
    /\ UNCHANGED <<swapped, page, word_count_arg, given, fresh>>
    /\ UNCHANGED funVars
    /\ UNCHANGED afterRepeat

\* comparator.compare(wikipedia_page, grokipedia_page), its value dropped
CompareOther ==
    /\ calls < MaxCalls
    /\ \E out \in CompareOn(comparator, wikipedia_page, grokipedia_page) :
         /\ comparator' = out.comparator
         /\ grokipedia_page' = out.wikipedia_page
         /\ wikipedia_page' = out.grokipedia_page
    /\ calls' = calls + 1
    /\ UNCHANGED <<result, swapped, page, word_count_arg, given, fresh,
                   returned>>
    /\ UNCHANGED funVars
    /\ UNCHANGED afterRepeat

\* fresh = PageComparator().compare(grokipedia_page, wikipedia_page)
CompareFresh ==
    /\ "fresh" \notin returned
    /\ \E out \in CompareOn(NewPageComparator, grokipedia_page,
                             wikipedia_page) :
         /\ fresh' = out.result
         /\ grokipedia_page' = out.grokipedia_page
         /\ wikipedia_page' = out.wikipedia_page
    /\ returned' = returned \cup {"fresh"}
    /\ UNCHANGED <<result, swapped, page, word_count_arg, given, comparator,
                   calls>>
    /\ UNCHANGED funVars
    /\ UNCHANGED afterRepeat

NextRepeat == CompareAgain \/ CompareOther \/ CompareFresh

SpecRepeat == InitRepeat /\ [][NextRepeat]_vars

----------------------------------------------------------------------------
(* Two compare() calls on independent pairs of pages that run at the same  *)
(* time on one PageComparator, a step being one statement of compare()     *)
(* (page_comparator.py:84-151; _generate_diff_segments in two steps,       *)
(* :199 and :200-228).                                                     *)

InitConcurrent ==
    /\ \E p \in ConcPagePairs, q \in ConcPagePairs :
         invocation = [t \in Threads |->
                         IF t = 1 THEN FrameOf(p[1], p[2])
                         ELSE FrameOf(q[1], q[2])]
    /\ scratch = [t \in Threads |-> <<>>]
    /\ comparator = NewPageComparator
    /\ calls = 0 /\ fresh = DefaultResult
    /\ given = <<PageOfText(<<>>), PageOfText(<<>>)>>
    /\ IdleText /\ IdleSim /\ category = "" /\ IdleDiff /\ IdleSections
    /\ IdleScore /\ IdlePages /\ IdlePage
    /\ IdleAfterConc
    /\ returned = {}

\* call t goes on to statement next with result r
Advance(t, next, r) ==
    /\ invocation' = [invocation EXCEPT ![t].pc = next, ![t].result = r]
    /\ UNCHANGED <<comparator, calls, given, fresh, returned>>
    /\ UNCHANGED funVars
    /\ UNCHANGED pageVars
    /\ UNCHANGED afterConc

StepSimilarity(t) ==
    LET f == invocation[t] IN
    /\ f.pc = "similarity"
    /\ Advance(t, "levenshtein",
               [f.result EXCEPT !.text_similarity =
                  CalculateTextSimilarity(f.grokipedia_page.text_content,
                                          f.wikipedia_page.text_content)])
    /\ UNCHANGED scratch

StepLevenshtein(t) ==
    LET f == invocation[t] IN
    /\ f.pc = "levenshtein"
    /\ \E lev \in CalculateLevenshteinDistance(
                     Capped(f.grokipedia_page.text_content),
                     Capped(f.wikipedia_page.text_content)) :
         Advance(t, "diff_main", [f.result EXCEPT !.levenshtein_distance = lev])
    /\ UNCHANGED scratch

\* diffs = self.dmp.diff_main(text1, text2), with its clean-up
StepDiffMain(t) ==
    LET f == invocation[t] IN
    /\ f.pc = "diff_main"
    /\ \E ds \in DiffMain(f.grokipedia_page.text_content,
                          f.wikipedia_page.text_content) :
         scratch' = [scratch EXCEPT ![DiffsSlot(t)] = ds]
    /\ invocation' = [invocation EXCEPT
                        ![t].pc = "segments",
                        ![t].during = \E u \in Threads \ {t} :
                                         invocation[u].pc = "segments"]
    /\ UNCHANGED <<comparator, calls, given, fresh, returned>>
    /\ UNCHANGED funVars
    /\ UNCHANGED pageVars
    /\ UNCHANGED afterConc

\* the loop over diffs
StepSegments(t) ==
    LET f == invocation[t] IN
    /\ f.pc = "segments"
    /\ Advance(t, "word_count",
               [f.result EXCEPT !.diff_segments =
                  GenerateDiffSegments(scratch[DiffsSlot(t)], 100)])
    /\ UNCHANGED scratch

StepWordCount(t) ==
    LET f == invocation[t]
        g == f.grokipedia_page
        w == f.wikipedia_page
    IN
    /\ f.pc = "word_count"
    /\ IF PctGuard(w.word_count) /\ w.word_count = 0
       THEN Advance(t, "done",
                    [DefaultResult EXCEPT !.raised = "ZeroDivisionError"])
       ELSE Advance(t, "sections",
                    [f.result EXCEPT
                       !.word_count_diff = WordCountDiff(g, w),
                       !.word_count_diff_pct =
                           IF PctGuard(w.word_count)
                           THEN Frac(WordCountDiff(g, w) * 100, w.word_count)
                           ELSE Frac(0, 1)])
    /\ UNCHANGED scratch

StepSections(t) ==
    LET f == invocation[t]
        g == f.grokipedia_page
        w == f.wikipedia_page
    IN
    /\ f.pc = "sections"
    /\ \E ug \in FindUniqueSections(g.sections, w.sections),
          uw \in FindUniqueSections(w.sections, g.sections) :
         Advance(t, "structure",
                 [f.result EXCEPT
                    !.section_overlap =
                        CalculateSectionOverlap(g.sections, w.sections),
                    !.unique_to_grokipedia = ug,
                    !.unique_to_wikipedia = uw])
    /\ UNCHANGED scratch

StepStructure(t) ==
    LET f == invocation[t]
        g == f.grokipedia_page
        w == f.wikipedia_page
    IN
    /\ f.pc = "structure"
    /\ Advance(t, "recency",
               [f.result EXCEPT
                  !.citation_count_grokipedia = Len(g.citations),
                  !.citation_count_wikipedia = Len(w.citations),
                  !.citation_diff =
                      CitationDiff(Len(g.citations), Len(w.citations)),
                  !.has_infobox_grokipedia = HasInfobox(g.infobox),
                  !.has_infobox_wikipedia = HasInfobox(w.infobox),
                  !.external_links_grokipedia = Len(g.external_links),
                  !.external_links_wikipedia = Len(w.external_links)])
    /\ UNCHANGED scratch

StepRecency(t) ==
    LET f == invocation[t] IN
    /\ f.pc = "recency"
    /\ Advance(t, "category",
               [f.result EXCEPT
                  !.recency_grokipedia = f.grokipedia_page.last_modified,
                  !.recency_wikipedia = f.wikipedia_page.last_modified])
    /\ UNCHANGED scratch

StepCategory(t) ==
    LET f == invocation[t] IN
    /\ f.pc = "category"
    /\ Advance(t, "key_differences",
               [f.result EXCEPT !.similarity_category =
                  CategorizeSimilarity(f.result.text_similarity)])
    /\ UNCHANGED scratch

StepKeyDifferences(t) ==
    LET f == invocation[t] IN
    /\ f.pc = "key_differences"
    /\ Advance(t, "done",
               [f.result EXCEPT !.key_differences =
                  IdentifyKeyDifferences(f.result, f.grokipedia_page,
                                         f.wikipedia_page)])
    /\ UNCHANGED scratch

NextConcurrent ==
    \E t \in Threads :
       \/ StepSimilarity(t)
       \/ StepLevenshtein(t)
       \/ StepDiffMain(t)
       \/ StepSegments(t)
       \/ StepWordCount(t)
       \/ StepSections(t)
       \/ StepStructure(t)
       \/ StepRecency(t)
       \/ StepCategory(t)
       \/ StepKeyDifferences(t)

SpecConcurrent == InitConcurrent /\ [][NextConcurrent]_vars

----------------------------------------------------------------------------
(* A MetricsAnalyzer on one text (metrics_analyzer.py:54-121), and the     *)
(* comparator on two pages with no words and no sections.                  *)

InitMetrics ==
    /\ analysed_text \in MetricTexts
    /\ citation_count \in MetricCitations
    /\ quality = DefaultQualityMetrics
    /\ bias = DefaultBiasMetrics
    /\ IdleText /\ IdleSim /\ category = "" /\ IdleDiff /\ IdleSections
    /\ IdleScore /\ IdlePages /\ IdlePage
    /\ IdleRepeat /\ IdleConc
    /\ IdleAfterMetrics
    /\ returned = {}

\* quality = analyzer.calculate_quality_metrics(text, citation_count)
QualityMetrics ==
    /\ "quality" \notin returned
    /\ quality' = CalculateQualityMetrics(analysed_text, citation_count)
    /\ returned' = returned \cup {"quality"}
    /\ UNCHANGED <<analysed_text, citation_count, bias>>
    /\ UNCHANGED funVars
    /\ UNCHANGED pageVars
    /\ UNCHANGED <<repeatVars, concVars>>
    /\ UNCHANGED afterMetrics

\* bias = analyzer.calculate_bias_metrics(text)
BiasMetrics ==
    /\ "bias" \notin returned
    /\ bias' = CalculateBiasMetrics(analysed_text)
    /\ returned' = returned \cup {"bias"}
    /\ UNCHANGED <<analysed_text, citation_count, quality>>
    /\ UNCHANGED funVars
    /\ UNCHANGED pageVars
    /\ UNCHANGED <<repeatVars, concVars>>
    /\ UNCHANGED afterMetrics

NextMetrics == QualityMetrics \/ BiasMetrics \/ Compare

SpecMetrics == InitMetrics /\ [][NextMetrics]_vars

----------------------------------------------------------------------------
(* Two TopicSampler instances of one process, built from one configuration *)
(* file (topic_sampler.py:26-131).                                         *)

InitSampler ==
    /\ configuration \in Configurations
    /\ total_size \in TotalSizes
    /\ stream \in Streams
    /\ random_state = Seed(0)
    /\ samplers = [i \in Samplers |-> NoSampler]
    /\ sampled = [i \in Samplers |-> NotSampled]
    /\ flat = [i \in Samplers |-> <<>>]
    /\ events = <<>>
    /\ IdleText /\ IdleSim /\ category = "" /\ IdleDiff /\ IdleSections
    /\ IdleScore /\ IdlePages /\ IdlePage
    /\ IdleRepeat /\ IdleConc /\ IdleMetrics
    /\ IdleAfterSampler
    /\ returned = {}

\* an entry of `events`
Event(op, i, topic, category_arg) ==
    [op |-> op, sampler |-> i, topic |-> topic, category |-> category_arg]

\* the calls of op on sampler i so far
Calls(op, i) ==
    Cardinality({k \in 1..Len(events) :
                   events[k].op = op /\ events[k].sampler = i})

\* the draws sample_topics makes on a configuration
Draws(config) ==
    SumOver([k \in 1..Len(config.categories) |->
                DrawsFor(config.categories[k], total_size)],
            Len(config.categories))

\* what the sampler actions leave alone
SamplerFrame ==
    /\ UNCHANGED <<configuration, total_size, stream, returned>>
    /\ UNCHANGED funVars
    /\ UNCHANGED pageVars
    /\ UNCHANGED <<repeatVars, concVars, metricVars>>
    /\ UNCHANGED afterSampler

\* TopicSampler(): __init__ loads the configuration and seeds random
Construct(i) ==
    /\ ~samplers[i].constructed
    /\ LET seed == IF configuration.random_seed = None THEN DefaultSeed
                   ELSE TheOnly(configuration.random_seed)
       IN  /\ samplers' = [samplers EXCEPT ![i] =
                             [constructed |-> TRUE, config |-> configuration,
                              random_seed |-> seed]]
           /\ random_state' = Seed(seed)
    /\ events' = Append(events, Event("__init__", i, "", ""))
    /\ UNCHANGED <<sampled, flat>>
    /\ SamplerFrame

\* sampled[i] = samplers[i].sample_topics(total_size)
SampleTopics(i) ==
    /\ samplers[i].constructed
    /\ Calls("sample_topics", i) = 0
    /\ random_state.position + Draws(samplers[i].config) <= MaxDraws
    /\ LET out == SampleTopicsOf(stream, random_state, samplers[i].config,
                                 total_size)
       IN  /\ sampled' = [sampled EXCEPT ![i] =
                            [raised |-> out.raised, topics |-> out.topics]]
           /\ random_state' = out.state
    /\ events' = Append(events, Event("sample_topics", i, "", ""))
    /\ UNCHANGED <<samplers, flat>>
    /\ SamplerFrame

\* flat[i] = samplers[i].get_all_topics_flat(total_size)
GetAllTopicsFlat(i) ==
    /\ samplers[i].constructed
    /\ Calls("get_all_topics_flat", i) = 0
    /\ random_state.position + Draws(samplers[i].config) <= MaxDraws
    /\ LET out == SampleTopicsOf(stream, random_state, samplers[i].config,
                                 total_size)
       IN  /\ flat' = [flat EXCEPT ![i] = Flatten(out.topics)]
           /\ random_state' = out.state
    /\ events' = Append(events, Event("get_all_topics_flat", i, "", ""))
    /\ UNCHANGED <<samplers, sampled>>
    /\ SamplerFrame

\* samplers[i].add_custom_topic(topic, category)
AddCustomTopic(i) ==
    /\ samplers[i].constructed
    /\ Calls("add_custom_topic", i) < 2
    /\ \E topic \in CustomTopics, c \in CustomCategories :
         /\ samplers' = [samplers EXCEPT ![i].config =
                           AddCustomTopicTo(@, topic, c)]
         /\ events' = Append(events, Event("add_custom_topic", i, topic, c))
    /\ UNCHANGED <<random_state, sampled, flat>>
    /\ SamplerFrame

NextSampler ==
    \E i \in Samplers :
       \/ Construct(i)
       \/ SampleTopics(i)

SpecSampler == InitSampler /\ [][NextSampler]_vars

\* one sampler that is given custom topics before and after it samples
NextCustom ==
    \/ Construct(1)
    \/ AddCustomTopic(1)
    \/ SampleTopics(1)
    \/ GetAllTopicsFlat(1)

SpecCustom == InitSampler /\ [][NextCustom]_vars

----------------------------------------------------------------------------
(* One scraper serving _fetch_page calls one after the other, as           *)
(* fetch_and_parse makes them (base_scraper.py:61-91, 120-136).            *)

InitScraper ==
    /\ now = Epoch
    /\ \E d \in RateLimitDelays, m \in RetryLimits : scraper = NewScraper(d, m)
    /\ fetch = NoFetch
    /\ requests = <<>> /\ sleeps = <<>> /\ fetched = <<>>
    /\ IdleText /\ IdleSim /\ category = "" /\ IdleDiff /\ IdleSections
    /\ IdleScore /\ IdlePages /\ IdlePage
    /\ IdleRepeat /\ IdleConc /\ IdleMetrics /\ IdleSampler
    /\ IdleAfterScraper
    /\ returned = {}

\* what the scraper actions leave alone
ScraperFrame ==
    /\ UNCHANGED returned
    /\ UNCHANGED funVars
    /\ UNCHANGED pageVars
    /\ UNCHANGED <<repeatVars, concVars, metricVars, samplerVars>>
    /\ UNCHANGED afterScraper

\* the number of the _fetch_page call in progress
ThisFetch == Len(fetched) + 1

\* fetch_and_parse(topic) calls _fetch_page(url), some time after the
\* call before
CallFetchPage ==
    /\ fetch.pc = "idle"
    /\ ThisFetch \in Fetches
    /\ \E pause \in Pauses : now' = now + pause
    /\ fetch' = [pc |-> "rate_limit", attempt |-> 0]
    /\ UNCHANGED <<scraper, requests, sleeps, fetched>>
    /\ ScraperFrame

\* self._rate_limit()
RateLimit ==
    /\ fetch.pc = "rate_limit"
    /\ now' = now + RateLimitSleep(scraper, now)
    /\ sleeps' = IF RateLimitSleep(scraper, now) > 0
                 THEN Append(sleeps, [fetch |-> ThisFetch, kind |-> "rate_limit",
                                      after |-> 0,
                                      seconds |-> RateLimitSleep(scraper, now)])
                 ELSE sleeps
    /\ scraper' = [scraper EXCEPT !.last_request_time = now']
    /\ fetch' = [fetch EXCEPT !.pc = "for"]
    /\ UNCHANGED <<requests, fetched>>
    /\ ScraperFrame

\* range(self.max_retries) has no further attempt: the function ends
\* without a return statement
LoopEnds ==
    /\ fetch.pc = "for"
    /\ ~InRange(scraper, fetch.attempt)
    /\ fetched' = Append(fetched, None)
    /\ fetch' = NoFetch
    /\ UNCHANGED <<now, scraper, requests, sleeps>>
    /\ ScraperFrame

\* the request of an attempt is started and succeeds: return response.text
GetSucceeds ==
    /\ fetch.pc = "for"
    /\ InRange(scraper, fetch.attempt)
    /\ \E latency \in Latencies, body \in ResponseTexts :
         /\ requests' = Append(requests,
                               [fetch |-> ThisFetch, attempt |-> fetch.attempt,
                                at |-> now, until |-> now + latency,
                                ok |-> TRUE])
         /\ now' = now + latency
         /\ fetched' = Append(fetched, Some(body))
    /\ fetch' = NoFetch
    /\ UNCHANGED <<scraper, sleeps>>
    /\ ScraperFrame

\* the request of an attempt is started and raises RequestException
GetFails ==
    /\ fetch.pc = "for"
    /\ InRange(scraper, fetch.attempt)
    /\ \E latency \in Latencies :
         /\ requests' = Append(requests,
                               [fetch |-> ThisFetch, attempt |-> fetch.attempt,
                                at |-> now, until |-> now + latency,
                                ok |-> FALSE])
         /\ now' = now + latency
    /\ fetch' = [fetch EXCEPT !.pc = "except"]
    /\ UNCHANGED <<scraper, sleeps, fetched>>
    /\ ScraperFrame

\* the handler, not after the last attempt: time.sleep(2 ** attempt)
SleepBackoff ==
    /\ fetch.pc = "except"
    /\ ~IsLastAttempt(scraper, fetch.attempt)
    /\ now' = now + Backoff(fetch.attempt)
    /\ sleeps' = Append(sleeps, [fetch |-> ThisFetch, kind |-> "backoff",
                                 after |-> fetch.attempt,
                                 seconds |-> Backoff(fetch.attempt)])
    /\ fetch' = [pc |-> "for", attempt |-> fetch.attempt + 1]
    /\ UNCHANGED <<scraper, requests, fetched>>
    /\ ScraperFrame

\* the handler after the last attempt: return None
GiveUp ==
    /\ fetch.pc = "except"
    /\ IsLastAttempt(scraper, fetch.attempt)
    /\ fetched' = Append(fetched, None)
    /\ fetch' = NoFetch
    /\ UNCHANGED <<now, scraper, requests, sleeps>>
    /\ ScraperFrame

NextScraper ==
    \/ CallFetchPage
    \/ RateLimit
    \/ LoopEnds
    \/ GetSucceeds
    \/ GetFails
    \/ SleepBackoff
    \/ GiveUp

SpecScraper == InitScraper /\ [][NextScraper]_vars

\* a call that has started goes on: nothing stops the thread
FairScraper ==
    /\ WF_vars(RateLimit) /\ WF_vars(LoopEnds)
    /\ WF_vars(GetSucceeds \/ GetFails)
    /\ WF_vars(SleepBackoff) /\ WF_vars(GiveUp)

SpecScraperFair == SpecScraper /\ FairScraper

----------------------------------------------------------------------------
(* run_comparison going through its list of topics (main.py:42-102).       *)

InitOrchestrator ==
    /\ topic_list \in TopicLists
    /\ loop_index = 1
    /\ results_before \in EarlierResults
    /\ results = results_before
    /\ processed = <<>>
    /\ IdleText /\ IdleSim /\ category = "" /\ IdleDiff /\ IdleSections
    /\ IdleScore /\ IdlePages /\ IdlePage
    /\ IdleRepeat /\ IdleConc /\ IdleMetrics /\ IdleSampler /\ IdleScraper
    /\ returned = {}

\* the loop is at a pair
AtTopic == loop_index \in 1..Len(topic_list)

\* what happened to the pair the loop is at
Outcome(wikipedia, grokipedia, compare) ==
    [topic |-> topic_list[loop_index][2], wikipedia |-> wikipedia,
     grokipedia |-> grokipedia, compare |-> compare]

\* what the orchestrator actions leave alone
OrchestratorFrame ==
    /\ UNCHANGED <<topic_list, results_before, returned>>
    /\ UNCHANGED funVars
    /\ UNCHANGED pageVars
    /\ UNCHANGED <<repeatVars, concVars, metricVars, samplerVars,
                   scraperVars>>

\* the Wikipedia scraper returns None: _compare_topic returns None
WikipediaFails ==
    /\ AtTopic
    /\ processed' = Append(processed, Outcome("None", "not called",
                                               "not called"))
    /\ loop_index' = loop_index + 1
    /\ UNCHANGED results
    /\ OrchestratorFrame

\* the Grokipedia scraper returns None: _compare_topic returns None
GrokipediaFails ==
    /\ AtTopic
    /\ processed' = Append(processed, Outcome("page", "None", "not called"))
    /\ loop_index' = loop_index + 1
    /\ UNCHANGED results
    /\ OrchestratorFrame

\* a scraper or the comparator raises an Exception: the handler prints and
\* continues
TopicRaises ==
    /\ AtTopic
    /\ \E o \in { Outcome("raised", "not called", "not called"),
                   Outcome("page", "raised", "not called"),
                   Outcome("page", "page", "raised") } :
         processed' = Append(processed, o)
    /\ loop_index' = IndexAfterError(loop_index, Len(topic_list))
    /\ UNCHANGED results
    /\ OrchestratorFrame

\* both pages are there and compare returns: the result is appended
TopicCompared ==
    /\ AtTopic
    /\ processed' = Append(processed, Outcome("page", "page", "result"))
    /\ results' = Append(results,
                         ComparedTopic(topic_list[loop_index][2],
                                       topic_list[loop_index][1]))
    /\ loop_index' = loop_index + 1
    /\ OrchestratorFrame

NextOrchestrator ==
    \/ WikipediaFails
    \/ GrokipediaFails
    \/ TopicRaises
    \/ TopicCompared

SpecOrchestrator == InitOrchestrator /\ [][NextOrchestrator]_vars

----------------------------------------------------------------------------
(* Properties of calls at the same time (SpecConcurrent).                  *)

\* the diff list call t holds is a diff of its own two texts
OwnDiffs(t) ==
    invocation[t].pc = "segments"
    => scratch[DiffsSlot(t)]
         \in DiffMain(invocation[t].grokipedia_page.text_content,
                      invocation[t].wikipedia_page.text_content)

\* the result of call t once it has returned is one that compare() on its
\* own returns for the pages of call t
AsAlone(t) ==
    invocation[t].pc = "done"
    => invocation[t].result
         \in CompareResults(invocation[t].grokipedia_page,
                            invocation[t].wikipedia_page)

\* C22: two compare() calls for independent pairs of pages that run at the
\* same time on one PageComparator each return, in every interleaving of
\* their statements, a result that the call returns when it runs alone;
\* neither call sees the diff list of the other, and the comparator they
\* share is left as it was constructed.
ConcurrentCallsAsAlone ==
    /\ \A t \in Threads : OwnDiffs(t) /\ AsAlone(t)
    /\ comparator = NewPageComparator

\* both calls have returned, with different segments, after the first ran
\* diff_main while the second held a diff list it had not yet looped over
BothReturnedAfterOverlap ==
    /\ \A t \in Threads : invocation[t].pc = "done"
    /\ invocation[1].during
    /\ invocation[1].result.diff_segments # <<>>
    /\ invocation[2].result.diff_segments # <<>>
    /\ invocation[1].result.diff_segments # invocation[2].result.diff_segments

----------------------------------------------------------------------------
(* Properties of the divisions (SpecMetrics).                              *)

\* the QualityMetrics returned for a text: nothing raised, and 0.0 where
\* the word count or the sentence count is zero
QualityContract(q, text) ==
    /\ q.raised = ""
    /\ WordCount(text) = 0 =>
          /\ q.citation_density.num = 0
          /\ q.readability_score.num = 0
          /\ q.complexity_score.num = 0
    /\ Len(SplitSentences(text)) = 0 =>
          /\ q.avg_sentence_length.num = 0
          /\ q.readability_score.num = 0

\* the BiasMetrics returned for a text: nothing raised, and 0.0 where the
\* word count or the number of positive and negative words is zero
BiasContract(b, text) ==
    /\ b.raised = ""
    /\ WordCount(text) = 0 => b.subjectivity_score.num = 0
    /\ CountAll(LowerText(text), positive_words)
         + CountAll(LowerText(text), negative_words) = 0
       => b.sentiment_polarity.num = 0

\* the ComparisonResult returned: nothing raised, and 0.0 where the second
\* page has no words or the two pages have no section title
RatiosContract(r, a, b) ==
    /\ r.raised = ""
    /\ b.word_count = 0 => r.word_count_diff_pct.num = 0
    /\ DOMAIN a.sections \cup DOMAIN b.sections = {}
       => r.section_overlap.num = 0

\* C23: no division of the comparator or of MetricsAnalyzer faults: for
\* every text, empty, whitespace only and punctuation only included, and
\* every citation count, calculate_quality_metrics and
\* calculate_bias_metrics return, and a ratio whose denominator is zero
\* (the word count, the sentence count, the number of positive and
\* negative words, the second page's word count, the union of the section
\* titles) is reported as 0.0.
NoDivisionFaults ==
    /\ "quality" \in returned => QualityContract(quality, analysed_text)
    /\ "bias" \in returned => BiasContract(bias, analysed_text)
    /\ "compare" \in returned
       => RatiosContract(result, grokipedia_page, wikipedia_page)

\* a full stop with two citations: one word, no sentence, no positive or
\* negative word; and two pages with no words and no sections
PunctuationOnlyMeasured ==
    /\ returned = {"quality", "bias", "compare"}
    /\ analysed_text = <<".">>
    /\ citation_count = 2
    /\ quality.raised = ""
    /\ quality.avg_sentence_length.num = 0
    /\ quality.citation_density = Frac(2000, 1)
    /\ bias.sentiment_polarity.num = 0
    /\ wikipedia_page.word_count = 0
    /\ result.word_count_diff_pct.num = 0

----------------------------------------------------------------------------
(* Properties of the samplers (SpecSampler, SpecCustom).                   *)

\* every sampler was constructed before any sampler sampled
ConstructedFirst ==
    \A k \in 1..Len(events), l \in 1..Len(events) :
       events[k].op = "__init__" /\ events[l].op = "sample_topics" => k < l

\* every sampler has returned from sample_topics
AllSampled == \A i \in Samplers : Calls("sample_topics", i) = 1

\* the category keys of a sample, in order
KeysOf(sample) == [k \in 1..Len(sample.topics) |-> sample.topics[k].name]

\* C24: sampling is reproducible with the same seed: two TopicSampler
\* instances built from the same configuration, both constructed first and
\* then each asked to sample_topics with the same total_size, return the
\* same category keys and the same list of topics for every category.
SamplingReproducible ==
    AllSampled /\ ConstructedFirst
    => /\ KeysOf(sampled[1]) = KeysOf(sampled[2])
       /\ sampled[1] = sampled[2]

\* the entries of a sample for category `name`
EntriesFor(sample, name) ==
    {k \in 1..Len(sample.topics) : sample.topics[k].name = name}

\* the number of topics in a sample
TotalOf(sample) ==
    SumOver([k \in 1..Len(sample.topics) |-> Len(sample.topics[k].topics)],
            Len(sample.topics))

\* what a sample holds for category c of its configuration: nothing when
\* c has no topic, else int(total_size * weight) topics of c, all
\* different when c has that many, every topic of c otherwise
CategoryContract(sample, c) ==
    IF c.topics = <<>> THEN EntriesFor(sample, c.name) = {}
    ELSE /\ Cardinality(EntriesFor(sample, c.name)) = 1
         /\ \A k \in EntriesFor(sample, c.name) :
              LET got == sample.topics[k].topics
                  size == IntOfProduct(total_size, c.weight)
              IN  /\ Len(got) = size
                  /\ \A i \in 1..Len(got) :
                        \E j \in 1..Len(c.topics) : got[i] = c.topics[j]
                  /\ Len(c.topics) >= size
                     => \A i \in 1..Len(got), j \in 1..Len(got) :
                           got[i] = got[j] => i = j
                  /\ Len(c.topics) < size
                     => \A j \in 1..Len(c.topics) :
                           \E i \in 1..Len(got) : got[i] = c.topics[j]

\* the sum of the weights of a configuration is at most 1
WeightsWithinOne(config) ==
    LET RECURSIVE Sum(_)
        \* the sum of the weights of the first k categories
        Sum(k) ==
            IF k = 0 THEN Frac(0, 1)
            ELSE Frac(Sum(k - 1).num * config.categories[k].weight.den
                         + config.categories[k].weight.num * Sum(k - 1).den,
                      Sum(k - 1).den * config.categories[k].weight.den)
    IN  FracLe(Sum(Len(config.categories)), Frac(1, 1))

\* sample_topics is asked for a category's negative number of topics
NegativeShare(config) ==
    \E k \in 1..Len(config.categories) :
       /\ config.categories[k].topics # <<>>
       /\ IntOfProduct(total_size, config.categories[k].weight) < 0

TopicsOf(config, name) ==
    IF IndexOf(config, name) = 0 THEN <<>>
    ELSE config.categories[IndexOf(config, name)].topics

\* the add_custom_topic calls so far
AddCalls == {k \in 1..Len(events) : events[k].op = "add_custom_topic"}

\* the topics a sample holds, of all categories
SampledTopics(sample) ==
    UNION {{sample.topics[k].topics[i] : i \in 1..Len(sample.topics[k].topics)}
             : k \in 1..Len(sample.topics)}

\* C26: after add_custom_topic(topic, category) the topic is exactly once
\* in the list of topics of that category, also after a second call with
\* the same topic; the categories no call named are as the configuration
\* file has them; and a sample_topics or get_all_topics_flat call that
\* follows returns the topic among its topics.
CustomTopicAddedToItsCategory ==
    \A k \in AddCalls :
       /\ ListCount(TopicsOf(samplers[1].config, events[k].category),
                    events[k].topic) = 1
       /\ \A c \in 1..Len(samplers[1].config.categories) :
             LET name == samplers[1].config.categories[c].name
             IN  (\A l \in AddCalls : events[l].category # name)
                 => TopicsOf(samplers[1].config, name)
                      = TopicsOf(configuration, name)
       /\ \A l \in k..Len(events) :
             /\ events[l].op = "sample_topics"
                => events[k].topic \in SampledTopics(sampled[1])
             /\ events[l].op = "get_all_topics_flat"
                => \E i \in 1..Len(flat[1]) : flat[1][i][2] = events[k].topic

----------------------------------------------------------------------------
(* Properties of the scraper (SpecScraper, SpecScraperFair).               *)

\* the requests of _fetch_page call c, as positions of `requests`
RequestsOf(c) == {k \in 1..Len(requests) : requests[k].fetch = c}

\* call c makes at most max_retries requests and none after one that
\* succeeded; once it has returned, it returned the response text if a
\* request succeeded, and None if all max_retries requests failed
FetchContract(c) ==
    /\ Cardinality(RequestsOf(c)) <= scraper.max_retries
    /\ \A k \in RequestsOf(c), l \in RequestsOf(c) :
          requests[k].ok => l <= k
    /\ c <= Len(fetched)
       => /\ (\E k \in RequestsOf(c) : requests[k].ok)
             => fetched[c] \in {Some(body) : body \in ResponseTexts}
          /\ fetched[c] = None
             <=> /\ Cardinality(RequestsOf(c)) = scraper.max_retries
                 /\ \A k \in RequestsOf(c) : ~requests[k].ok

\* C27: _fetch_page terminates, after at most max_retries GET requests:
\* it returns the text of the first request that succeeds and makes no
\* request after it, and it returns None exactly when all max_retries
\* requests have failed, which with max_retries 0 is without any request.
FetchPageTerminates ==
    /\ [](\A c \in Fetches : FetchContract(c))
    /\ (fetch.pc # "idle") ~> (fetch.pc = "idle")

\* a call that returned None after three failed requests, and a call
\* after it that returned the text of its second request
ThreeFailuresThenNone ==
    /\ scraper.max_retries = 3
    /\ Len(fetched) = 2
    /\ fetched[1] = None
    /\ Cardinality(RequestsOf(1)) = 3
    /\ fetched[2] # None
    /\ Cardinality(RequestsOf(2)) = 2

\* C28: any two consecutive GET requests of one scraper, retries inside
\* _fetch_page and the requests of successive fetch_and_parse calls
\* included, start at least rate_limit_delay seconds apart.
RequestsRateLimited ==
    \A k \in 1..(Len(requests) - 1) :
       requests[k + 1].at - requests[k].at >= scraper.rate_limit_delay

\* the backoff sleeps of call c after its attempt a
BackoffsAfter(c, a) ==
    {k \in 1..Len(sleeps) : /\ sleeps[k].kind = "backoff"
                            /\ sleeps[k].fetch = c /\ sleeps[k].after = a}

\* the handler of the request has not run yet
HandlerPending(r) ==
    /\ fetch.pc = "except"
    /\ r.fetch = ThisFetch /\ r.attempt = fetch.attempt

\* what follows request r of a call: nothing to sleep after a success;
\* after a failure that is not the last attempt one sleep of 2^attempt
\* seconds, and the next attempt right at its end; after the failure of
\* the last attempt no sleep and None
BackoffContract(r) ==
    IF r.ok \/ HandlerPending(r) THEN BackoffsAfter(r.fetch, r.attempt) = {}
    ELSE IF r.attempt < scraper.max_retries - 1
    THEN /\ Cardinality(BackoffsAfter(r.fetch, r.attempt)) = 1
         /\ \A k \in BackoffsAfter(r.fetch, r.attempt) :
               sleeps[k].seconds = 2 ^ r.attempt
         /\ \A k \in RequestsOf(r.fetch) :
               requests[k].attempt = r.attempt + 1
               => requests[k].at = r.until + 2 ^ r.attempt
    ELSE /\ BackoffsAfter(r.fetch, r.attempt) = {}
         /\ r.fetch <= Len(fetched)
         /\ fetched[r.fetch] = None

\* C30: after the failed attempt k, counted from 0, that is not the last
\* one, _fetch_page sleeps 2^k seconds and then makes attempt k + 1; after
\* the last failed attempt it sleeps no more and returns None.
ExponentialBackoff ==
    /\ \A k \in 1..Len(requests) : BackoffContract(requests[k])
    /\ Cardinality({k \in 1..Len(sleeps) : sleeps[k].kind = "backoff"})
         = Cardinality({k \in 1..Len(requests) :
                          BackoffsAfter(requests[k].fetch,
                                        requests[k].attempt) # {}})

\* three failed attempts of one call: a second of sleep, then two, then
\* None with no further sleep
SleptOneThenTwo ==
    /\ scraper.max_retries = 3
    /\ Len(fetched) = 1 /\ fetched[1] = None
    /\ Len(requests) = 3
    /\ [k \in 1..Len(sleeps) |-> sleeps[k].seconds] = <<1, 2>>
    /\ now = requests[3].until

----------------------------------------------------------------------------
(* Properties of the orchestrator (SpecOrchestrator).                      *)

\* the pairs gone through for which both scrapers returned a page and
\* compare returned, as positions of the list
Succeeded ==
    {k \in 1..Len(processed) :
       /\ processed[k].wikipedia = "page"
       /\ processed[k].grokipedia = "page"
       /\ processed[k].compare = "result"}

\* the k-th smallest of a set of numbers
Nth(S, k) == CHOOSE x \in S : Cardinality({y \in S : y <= x}) = k

\* the results appended in this run
Appended == SubSeq(results, Len(results_before) + 1, Len(results))

\* C29: run_comparison skips and continues: the results it has appended
\* are, in the order of the list, those of exactly the topics for which
\* both fetch_and_parse calls returned a page and compare did not raise;
\* a failed fetch or an exception leaves out that topic alone, the loop
\* goes on to every later topic, and at most len(L) results are appended.
SkipAndContinue ==
    /\ Len(processed) = loop_index - 1
    /\ loop_index <= Len(topic_list) + 1
    /\ \A k \in 1..Len(processed) :
          processed[k].topic = topic_list[k][2]
    /\ SubSeq(results, 1, Len(results_before)) = results_before
    /\ Len(Appended) = Cardinality(Succeeded)
    /\ \A k \in 1..Len(Appended) :
          Appended[k].topic = topic_list[Nth(Succeeded, k)][2]
    /\ Len(Appended) <= Len(topic_list)

\* three topics gone through after an earlier run: the first raised, the
\* second had no Grokipedia page, the third was compared
LaterTopicComparedAfterFailures ==
    /\ Len(topic_list) = 3 /\ loop_index = 4
    /\ Len(results_before) = 1
    /\ processed[1].compare = "raised"
    /\ processed[2].grokipedia = "None"
    /\ Len(Appended) = 1
    /\ Appended[1].topic = topic_list[3][2]

----------------------------------------------------------------------------
(* Properties of the similarity measure (SpecSim).                         *)

One == Frac(1, 1)

\* C1: text similarity is symmetric: _calculate_text_similarity(A, B)
\* equals _calculate_text_similarity(B, A) for all texts A and B.
SimilaritySymmetric ==
    "reversed" \in returned => FracEq(similarity, reversed)

\* C2 as stated: for every text T, also the empty one, the similarity of T
\* with itself is exactly 1.0 and its bucket is "high".
IdenticalTextsScoreOne ==
    ("category" \in returned /\ text1 = text2)
        => FracEq(similarity, One) /\ category = "high"

\* C2, amended: for every non-empty text T, _calculate_text_similarity(T, T)
\* is exactly 1.0 and _categorize_similarity of it is "high" (for the empty
\* text the similarity is 0.0).
IdenticalNonEmptyTextsScoreOne ==
    ("category" \in returned /\ text1 = text2 /\ text1 # <<>>)
        => FracEq(similarity, One) /\ category = "high"

\* a text of more than 200 characters, where autojunk drops the popular
\* letter from the index, compared with itself and bucketed
IdenticalLongTextsCompared ==
    /\ "category" \in returned
    /\ text1 = text2 /\ Len(text1) > 200
    /\ category = "high"

\* C3: the similarity lies in [0.0, 1.0], and it is exactly 0.0 whenever
\* one of the two texts is empty.
SimilarityInUnitInterval ==
    /\ "similarity" \in returned =>
         /\ 0 <= similarity.num /\ similarity.num <= similarity.den
         /\ (text1 = <<>> \/ text2 = <<>>) => similarity.num = 0
    /\ "reversed" \in returned =>
         /\ 0 <= reversed.num /\ reversed.num <= reversed.den
         /\ (text1 = <<>> \/ text2 = <<>>) => reversed.num = 0

\* the empty text was compared with a non-empty one, and scored 0.0
EmptyTextCompared ==
    /\ "similarity" \in returned
    /\ text1 = <<>> /\ text2 # <<>>
    /\ similarity.num = 0

----------------------------------------------------------------------------
(* Properties of the diff segmenter (SpecDiff).                            *)

IsPrefix(x, t) == Len(x) <= Len(t) /\ SubSeq(t, 1, Len(x)) = x

Occurs(x, t) ==
    \E k \in 0..(Len(t) - Len(x)) : SubSeq(t, k + 1, k + Len(x)) = x

\* the texts of the chosen side of the segments of the given types, joined
RECURSIVE JoinGrokipedia(_, _)
JoinGrokipedia(segs, types) ==
    IF segs = <<>> THEN <<>>
    ELSE (IF Head(segs).type \in types
          THEN Head(segs).grokipedia_text ELSE <<>>)
         \o JoinGrokipedia(Tail(segs), types)

RECURSIVE JoinWikipedia(_, _)
JoinWikipedia(segs, types) ==
    IF segs = <<>> THEN <<>>
    ELSE (IF Head(segs).type \in types
          THEN Head(segs).wikipedia_text ELSE <<>>)
         \o JoinWikipedia(Tail(segs), types)

\* the sum of the full text lengths of the first n entries of a diff
RECURSIVE LengthBefore(_, _)
LengthBefore(ds, n) ==
    IF n = 0 THEN 0 ELSE LengthBefore(ds, n - 1) + Len(ds[n].text)

\* C4: an 'insert' segment carries text of source A (text1, Grokipedia)
\* and an empty B-side, a 'delete' segment carries text of source B (text2,
\* Wikipedia) and an empty A-side, an 'equal' segment carries the same text
\* on both sides.
SegmentSidesAsLabelled ==
    "segments" \in returned =>
        \A i \in DOMAIN segments :
            /\ segments[i].type = "insert" =>
                 /\ segments[i].wikipedia_text = <<>>
                 /\ Occurs(segments[i].grokipedia_text, text1)
            /\ segments[i].type = "delete" =>
                 /\ segments[i].grokipedia_text = <<>>
                 /\ Occurs(segments[i].wikipedia_text, text2)
            /\ segments[i].type = "equal" =>
                 segments[i].grokipedia_text = segments[i].wikipedia_text

\* C5: when no segment was cut off or truncated, the A-sides of the
\* 'equal' and 'insert' segments joined in order give text A, and the
\* B-sides of the 'equal' and 'delete' segments give text B.
DiffRoundTrip ==
    ( /\ "segments" \in returned
      /\ Len(diffs) <= max_segments
      /\ \A i \in DOMAIN diffs : Len(diffs[i].text) <= 500 )
    => /\ JoinGrokipedia(segments, {"equal", "insert"}) = text1
       /\ JoinWikipedia(segments, {"equal", "delete"}) = text2

\* C6: at most max_segments segments are returned, they are the first
\* entries of the cleaned-up diff in order, the first position is 0 and
\* each later position is the sum of the full text lengths of the entries
\* before it, so positions never decrease.
SegmentsAreFirstEntriesWithOffsets ==
    "segments" \in returned =>
        /\ Len(segments) <= max_segments
        /\ Len(segments) = Min({Len(diffs), max_segments})
        /\ \A i \in DOMAIN segments :
             /\ segments[i].position = LengthBefore(diffs, i - 1)
             /\ (segments[i].type = "equal") = (diffs[i].op = 0)
             /\ \/ segments[i].grokipedia_text = SubSeq(diffs[i].text, 1,
                      Min({Len(diffs[i].text), 500}))
                \/ segments[i].wikipedia_text = SubSeq(diffs[i].text, 1,
                      Min({Len(diffs[i].text), 500}))
        /\ (segments # <<>> => segments[1].position = 0)
        /\ \A i \in DOMAIN segments : \A j \in DOMAIN segments :
             i < j => segments[i].position <= segments[j].position

\* a diff of more entries than max_segments was cut to max_segments
\* segments, the second of them two characters into the text
DiffCutToMaxSegments ==
    /\ "segments" \in returned
    /\ Len(diffs) > max_segments
    /\ Len(segments) = max_segments
    /\ max_segments >= 2
    /\ segments[2].position = 2

\* C7: both texts of every DiffSegment have at most 500 characters, and
\* each is a prefix of the untruncated text of its diff entry.
SegmentTextsTruncated ==
    "segments" \in returned =>
        \A i \in DOMAIN segments :
            /\ Len(segments[i].grokipedia_text) <= 500
            /\ Len(segments[i].wikipedia_text) <= 500
            /\ IsPrefix(segments[i].grokipedia_text, diffs[i].text)
            /\ IsPrefix(segments[i].wikipedia_text, diffs[i].text)

\* a diff entry of more than 500 characters was cut to a segment of 500
LongEntryTruncated ==
    /\ "segments" \in returned
    /\ max_segments = 100
    /\ \E i \in DOMAIN segments :
         /\ Len(diffs[i].text) > 500
         /\ Len(segments[i].grokipedia_text) = 500
         /\ segments[i].grokipedia_text # diffs[i].text

----------------------------------------------------------------------------
(* Properties of the section comparison (SpecSections).                    *)

Keys1 == DOMAIN sections1
Keys2 == DOMAIN sections2

Elements(l) == {l[i] : i \in DOMAIN l}

Ascending(l) == \A i \in DOMAIN l : \A j \in DOMAIN l : i < j => l[i] < l[j]

\* C8: the section overlap is |keys1 /\ keys2| / |keys1 \/ keys2| when
\* both mappings are non-empty and 0.0 when one is empty; so it lies in
\* [0, 1], is 1.0 for a non-empty mapping against itself and 0.0 for the
\* empty mapping against anything.
SectionOverlapIsJaccard ==
    "overlap" \in returned =>
        /\ (Keys1 # {} /\ Keys2 # {}) =>
             overlap.num * Cardinality(Keys1 \cup Keys2)
                 = Cardinality(Keys1 \cap Keys2) * overlap.den
        /\ (Keys1 = {} \/ Keys2 = {}) => overlap.num = 0
        /\ overlap.den > 0
        /\ 0 <= overlap.num /\ overlap.num <= overlap.den
        /\ (sections1 = sections2 /\ Keys1 # {}) => overlap.num = overlap.den

\* two mappings that share some titles and not others were compared
PartialOverlapComputed ==
    /\ "overlap" \in returned
    /\ Keys1 \cap Keys2 # {} /\ Keys1 \ Keys2 # {} /\ Keys2 \ Keys1 # {}
    /\ 0 < overlap.num /\ overlap.num < overlap.den

\* C9: _find_unique_sections(A, B) is keys(A) minus keys(B) in ascending
\* order without duplicates; the two directions are disjoint, and with
\* the shared keys they make up keys(A) \/ keys(B).
UniqueSectionsSortedDifference ==
    /\ "unique1" \in returned =>
         /\ Elements(unique1) = Keys1 \ Keys2
         /\ Ascending(unique1)
    /\ "unique2" \in returned =>
         /\ Elements(unique2) = Keys2 \ Keys1
         /\ Ascending(unique2)
         /\ Elements(unique1) \cap Elements(unique2) = {}
         /\ Elements(unique1) \cup Elements(unique2) \cup (Keys1 \cap Keys2)
                = Keys1 \cup Keys2

\* both directions returned, the first with two titles or more
UniqueSectionsFound ==
    /\ "unique2" \in returned
    /\ Len(unique1) >= 2 /\ Len(unique2) >= 1
    /\ Keys1 \cap Keys2 # {}

----------------------------------------------------------------------------
(* Properties of the bucket (SpecCat).                                     *)

\* the score in millionths (every score drawn has that denominator)
Millionths == score.num

\* C10: _categorize_similarity returns "high" iff similarity >= 0.85,
\* "medium" iff 0.60 <= similarity < 0.85 and "low" iff similarity < 0.60,
\* exactly one of the three for every input.
BucketsLowerInclusive ==
    "category" \in returned =>
        /\ score.den = 1000000
        /\ category \in {"high", "medium", "low"}
        /\ (category = "high") = (Millionths >= 850000)
        /\ (category = "medium")
               = (600000 <= Millionths /\ Millionths < 850000)
        /\ (category = "low") = (Millionths < 600000)

\* the boundary value 0.85 was bucketed, as "high"
BoundaryBucketed ==
    /\ "category" \in returned
    /\ Millionths = 850000
    /\ category = "high"

----------------------------------------------------------------------------
(* Properties of compare() (SpecCompare).                                  *)

\* word_count_diff and word_count_diff_pct of r = compare(a, b)
WordCountContract(r, a, b) ==
    /\ r.word_count_diff = a.word_count - b.word_count
    /\ b.word_count > 0 =>
          r.word_count_diff_pct.num * b.word_count
            = (a.word_count - b.word_count) * 100 * r.word_count_diff_pct.den
    /\ b.word_count = 0 => r.word_count_diff_pct.num = 0

\* C11: the word-count difference of compare(A, B) is A's word count less
\* B's, and its percentage is that difference over B's word count times
\* 100 when B's word count is positive and 0 when B's word count is 0.
WordCountDiffRelativeToSecond ==
    /\ "compare" \in returned =>
          WordCountContract(result, grokipedia_page, wikipedia_page)
    /\ "swapped" \in returned =>
          WordCountContract(swapped, wikipedia_page, grokipedia_page)

\* both orders compared, one page with words and the other with none (so
\* that one percentage is a quotient and the other stays 0)
WordsAgainstNoWords ==
    /\ {"compare", "swapped"} \subseteq returned
    /\ grokipedia_page.word_count > 0
    /\ wikipedia_page.word_count = 0
    /\ result.word_count_diff > 0
    /\ swapped.word_count_diff_pct.num < 0

\* the citation fields of r = compare(a, b)
CitationContract(r, a, b) ==
    /\ r.citation_count_grokipedia = Len(a.citations)
    /\ r.citation_count_wikipedia = Len(b.citations)
    /\ r.citation_diff = Len(a.citations) - Len(b.citations)

\* C12: compare(A, B) reports the number of A's citations, the number of
\* B's citations and the first less the second, so that swapping the
\* arguments negates citation_diff.
CitationDiffSignedAndAntisymmetric ==
    /\ "compare" \in returned =>
          CitationContract(result, grokipedia_page, wikipedia_page)
    /\ "swapped" \in returned =>
          CitationContract(swapped, wikipedia_page, grokipedia_page)
    /\ {"compare", "swapped"} \subseteq returned =>
          swapped.citation_diff = 0 - result.citation_diff

\* 5 citations against 10, compared in both orders
FiveAgainstTenCitations ==
    /\ {"compare", "swapped"} \subseteq returned
    /\ Len(grokipedia_page.citations) = 5
    /\ Len(wikipedia_page.citations) = 10
    /\ result.citation_diff = 0 - 5
    /\ swapped.citation_diff = 5

\* the place of an entry in the fixed order of key_differences
Rank(e) ==
    IF e.kind = "similarity" THEN 0
    ELSE IF e.kind = "words" THEN 1
    ELSE IF e.kind = "citations" THEN 2
    ELSE IF e.kind = "sections" THEN (IF e.source = "Grokipedia" THEN 3 ELSE 4)
    ELSE 5

\* key_differences of r opens with the similarity entry and goes on in
\* the fixed order
KeyDifferencesOrdered(r) ==
    LET kd == r.key_differences
    IN  /\ Len(kd) >= 1 /\ Len(kd) <= 6
        /\ kd[1].kind = "similarity"
        /\ 2 * Abs(kd[1].hundredths * r.text_similarity.den
                     - r.text_similarity.num * 10000)
             <= r.text_similarity.den
        /\ kd[1].category = r.similarity_category
        /\ \A k \in 2..Len(kd) : Rank(kd[k]) >= 1
        /\ \A j \in 2..Len(kd), k \in 2..Len(kd) :
             j < k => Rank(kd[j]) < Rank(kd[k])

\* C13: key_differences is never empty; its first entry is the text
\* similarity (ratio and category); the other entries come at most once
\* each, in the order word count, citations, sections unique to the first
\* page, sections unique to the second page, infobox; 1 to 6 entries.
KeyDifferencesSimilarityFirstThenFixedOrder ==
    /\ "compare" \in returned /\ result.raised = "" =>
          KeyDifferencesOrdered(result)
    /\ "swapped" \in returned /\ swapped.raised = "" =>
          KeyDifferencesOrdered(swapped)

\* a comparison in which every trigger holds: six entries
SixKeyDifferences ==
    /\ "compare" \in returned
    /\ Len(result.key_differences) = 6
    /\ result.key_differences[6].kind = "infobox"

\* the entries of r.key_differences of a kind
EntriesOf(r, kind) ==
    {r.key_differences[k] : k \in {j \in DOMAIN r.key_differences :
                                     r.key_differences[j].kind = kind}}

\* the word-count entry of r = compare(a, b)
WordCountEntryContract(r, a, b) ==
    /\ EntriesOf(r, "words") # {}
          <=> Abs(r.word_count_diff_pct.num) > 25 * r.word_count_diff_pct.den
    /\ \A e \in EntriesOf(r, "words") :
          /\ e.source = "Grokipedia" => a.word_count > b.word_count
          /\ e.source = "Wikipedia" => b.word_count > a.word_count
          /\ e.source \in {"Grokipedia", "Wikipedia"}

\* C14: key_differences has a word-count entry exactly when the absolute
\* word-count percentage exceeds 25 (25 itself gives none), and the entry
\* names as longer the page whose word count is strictly greater.
WordCountEntryAbove25Only ==
    /\ "compare" \in returned /\ result.raised = "" =>
          WordCountEntryContract(result, grokipedia_page, wikipedia_page)
    /\ "swapped" \in returned /\ swapped.raised = "" =>
          WordCountEntryContract(swapped, wikipedia_page, grokipedia_page)

\* 3 words against 4: exactly -25 % and no entry one way, a third more
\* and an entry the other way
ExactlyQuarterShorter ==
    /\ {"compare", "swapped"} \subseteq returned
    /\ grokipedia_page.word_count = 3 /\ wikipedia_page.word_count = 4
    /\ result.word_count_diff_pct.num = (0 - 25) * result.word_count_diff_pct.den
    /\ EntriesOf(result, "words") = {}
    /\ \E e \in EntriesOf(swapped, "words") : e.source = "Grokipedia"

\* the citation entry of r = compare(a, b)
CitationEntryContract(r, a, b) ==
    /\ EntriesOf(r, "citations") # {} <=> Abs(r.citation_diff) > 5
    /\ \A e \in EntriesOf(r, "citations") :
          /\ e.source = "Grokipedia" => Len(a.citations) > Len(b.citations)
          /\ e.source = "Wikipedia" => Len(b.citations) > Len(a.citations)
          /\ e.source \in {"Grokipedia", "Wikipedia"}
          /\ e.more = Abs(Len(a.citations) - Len(b.citations))

\* C15: key_differences has a citation entry exactly when the absolute
\* citation difference exceeds 5 (5 itself gives none), and the entry
\* names the page with strictly more citations and shows the absolute
\* difference.
CitationEntryAbove5Only ==
    /\ "compare" \in returned /\ result.raised = "" =>
          CitationEntryContract(result, grokipedia_page, wikipedia_page)
    /\ "swapped" \in returned /\ swapped.raised = "" =>
          CitationEntryContract(swapped, wikipedia_page, grokipedia_page)

\* a difference of exactly 5 without an entry
FiveMoreCitationsNoEntry ==
    /\ "compare" \in returned
    /\ result.citation_diff = 5
    /\ EntriesOf(result, "citations") = {}

\* the sorted lists of section titles
TitleLists ==
    {l \in UNION {[1..n -> Titles] : n \in 0..MaxTitles} : Ascending(l)}

\* the entries of r.key_differences on the unique sections of a source
SectionEntriesOf(r, source) ==
    {e \in EntriesOf(r, "sections") : e.source = source}

\* the unique-sections entry of a source, unique being its sorted list of
\* unique titles: present when there is a unique title, naming the first 3
UniqueEntryNamesFirstThree(r, source, unique) ==
    /\ SectionEntriesOf(r, source) # {} <=> unique # <<>>
    /\ \A e \in SectionEntriesOf(r, source) :
          /\ Len(e.titles) = Min({3, Len(unique)})
          /\ \A k \in DOMAIN e.titles : e.titles[k] = unique[k]

\* the entry states how many unique titles there are: no list of another
\* length reads the same
UniqueEntryStatesTotal(r, source, unique) ==
    \A e \in SectionEntriesOf(r, source) :
      \A other \in TitleLists :
        SectionsEntry(source, other) = e => Len(other) = Len(unique)

\* C16 as stated: a source with a section title the other lacks gets an
\* entry that names at most the first 3 of its sorted unique titles and
\* states the total number of unique sections; no entry without a unique
\* title.
UniqueSectionsEntryStatesTotal ==
    "compare" \in returned /\ result.raised = "" =>
      /\ UniqueEntryNamesFirstThree(result, "Grokipedia",
                                    result.unique_to_grokipedia)
      /\ UniqueEntryNamesFirstThree(result, "Wikipedia",
                                    result.unique_to_wikipedia)
      /\ UniqueEntryStatesTotal(result, "Grokipedia",
                                result.unique_to_grokipedia)
      /\ UniqueEntryStatesTotal(result, "Wikipedia",
                                result.unique_to_wikipedia)

\* C16, amended: a source with a section title the other lacks gets an
\* entry that names the first 3 (all, when fewer) of its sorted unique
\* titles and nothing else; no entry without a unique title.
UniqueSectionsEntryNamesFirstThree ==
    /\ "compare" \in returned /\ result.raised = "" =>
          /\ Ascending(result.unique_to_grokipedia)
          /\ Elements(result.unique_to_grokipedia)
                = DOMAIN grokipedia_page.sections
                    \ DOMAIN wikipedia_page.sections
          /\ UniqueEntryNamesFirstThree(result, "Grokipedia",
                                        result.unique_to_grokipedia)
          /\ UniqueEntryNamesFirstThree(result, "Wikipedia",
                                        result.unique_to_wikipedia)
          /\ \A e \in EntriesOf(result, "sections") :
                DOMAIN e = {"kind", "source", "titles"}
    /\ "swapped" \in returned /\ swapped.raised = "" =>
          /\ Ascending(swapped.unique_to_grokipedia)
          /\ Elements(swapped.unique_to_grokipedia)
                = DOMAIN wikipedia_page.sections
                    \ DOMAIN grokipedia_page.sections
          /\ UniqueEntryNamesFirstThree(swapped, "Grokipedia",
                                        swapped.unique_to_grokipedia)
          /\ UniqueEntryNamesFirstThree(swapped, "Wikipedia",
                                        swapped.unique_to_wikipedia)

\* four unique titles on one side, of which the entry names three, and
\* none on the other side
FourUniqueSectionsThreeNamed ==
    /\ "compare" \in returned
    /\ Len(result.unique_to_grokipedia) = 4
    /\ result.unique_to_wikipedia = <<>>
    /\ \E e \in SectionEntriesOf(result, "Grokipedia") : Len(e.titles) = 3
    /\ SectionEntriesOf(result, "Wikipedia") = {}

\* the infobox flags and the infobox entry of r = compare(a, b)
InfoboxContract(r, a, b) ==
    /\ r.has_infobox_grokipedia <=> a.infobox # None
    /\ r.has_infobox_wikipedia <=> b.infobox # None
    /\ EntriesOf(r, "infobox") # {}
          <=> (a.infobox = None) # (b.infobox = None)
    /\ \A e \in EntriesOf(r, "infobox") :
          /\ e.source = "Grokipedia" => a.infobox # None /\ b.infobox = None
          /\ e.source = "Wikipedia" => b.infobox # None /\ a.infobox = None
          /\ e.source \in {"Grokipedia", "Wikipedia"}

\* C17: key_differences has an infobox entry exactly when one page alone
\* has an infobox that is not None, and the entry names that page; the
\* has_infobox flags say whether the infobox is not None, an empty mapping
\* counting as an infobox.
InfoboxEntryIffOneSided ==
    /\ "compare" \in returned /\ result.raised = "" =>
          InfoboxContract(result, grokipedia_page, wikipedia_page)
    /\ "swapped" \in returned /\ swapped.raised = "" =>
          InfoboxContract(swapped, wikipedia_page, grokipedia_page)

\* an empty infobox against none: flagged, and named in the entry
EmptyInfoboxAgainstNone ==
    /\ "compare" \in returned
    /\ \E m \in grokipedia_page.infobox : DOMAIN m = {}
    /\ wikipedia_page.infobox = None
    /\ result.has_infobox_grokipedia /\ ~result.has_infobox_wikipedia
    /\ \E e \in EntriesOf(result, "infobox") : e.source = "Grokipedia"

\* the Levenshtein distance of two texts: the least number of
\* single-character insertions, deletions and substitutions that turn one
\* into the other
RECURSIVE Levenshtein(_, _)
Levenshtein(a, b) ==
    IF a = b THEN 0
    ELSE IF a = <<>> THEN Len(b)
    ELSE IF b = <<>> THEN Len(a)
    ELSE Min({Levenshtein(SubSeq(a, 1, Len(a) - 1), b) + 1,
              Levenshtein(a, SubSeq(b, 1, Len(b) - 1)) + 1,
              Levenshtein(SubSeq(a, 1, Len(a) - 1), SubSeq(b, 1, Len(b) - 1))
                + (IF a[Len(a)] = b[Len(b)] THEN 0 ELSE 1)})

\* C18: levenshtein_distance is the character-level Levenshtein distance
\* of the first 10000 characters of the two texts; what follows the
\* 10000th character has no influence.
LevenshteinOfFirstTenThousand ==
    /\ "compare" \in returned /\ result.raised = "" =>
          result.levenshtein_distance
            = Levenshtein(Capped(grokipedia_page.text_content),
                          Capped(wikipedia_page.text_content))
    /\ "swapped" \in returned /\ swapped.raised = "" =>
          swapped.levenshtein_distance
            = Levenshtein(Capped(wikipedia_page.text_content),
                          Capped(grokipedia_page.text_content))

\* r = compare(a, b) has returned with the values of the edge cases
ReturnsWithEdgeValues(r, a, b) ==
    /\ r.raised = ""
    /\ (a.text_content = <<>> \/ b.text_content = <<>>)
          => r.text_similarity.num = 0
    /\ (DOMAIN a.sections = {} \/ DOMAIN b.sections = {})
          => r.section_overlap.num = 0
    /\ DOMAIN a.sections = {} => r.unique_to_grokipedia = <<>>
    /\ DOMAIN b.sections = {} => r.unique_to_wikipedia = <<>>
    /\ r.recency_grokipedia = a.last_modified
    /\ r.recency_wikipedia = b.last_modified
    /\ r.key_differences # <<>>

\* C19: compare raises nothing on well-formed pages, empty texts, empty
\* sections, no citations, no infobox and no timestamp included; an empty
\* text gives similarity 0.0, an empty sections mapping gives overlap 0.0
\* and no unique section for its page, and the last_modified values come
\* back unchanged.
CompareNeverRaises ==
    /\ "compare" \in returned =>
          ReturnsWithEdgeValues(result, grokipedia_page, wikipedia_page)
    /\ "swapped" \in returned =>
          ReturnsWithEdgeValues(swapped, wikipedia_page, grokipedia_page)

\* two pages with nothing in them, compared
EmptyPagesCompared ==
    /\ "compare" \in returned
    /\ grokipedia_page = PageOfText(<<>>)
    /\ wikipedia_page = PageOfText(<<>>)
    /\ result.raised = ""
    /\ result.similarity_category = "low"
    /\ result.recency_wikipedia = None
    /\ Len(result.key_differences) = 1

----------------------------------------------------------------------------
(* Properties of a PageContent record (SpecPage).                          *)

\* the whitespace-delimited tokens of a text, counted by their last
\* characters
Tokens(text) ==
    Cardinality({k \in 1..Len(text) :
                   /\ text[k] \notin {" ", "\t", "\n"}
                   /\ (k = Len(text) \/ text[k + 1] \in {" ", "\t", "\n"})})

\* C20 as stated: in every state of a PageContent record, after its
\* construction and after any later assignment to text_content, its
\* word_count is the number of whitespace-delimited tokens of its
\* text_content, unless a word_count was supplied.
WordCountAlwaysTokensOfText ==
    word_count_arg = 0 => page.word_count = Tokens(page.text_content)

\* a record as its construction left it
Constructed == "text_content" \notin returned

\* C20, amended: a PageContent record leaves its construction with the
\* word_count it was given or, given none (0), with the number of
\* whitespace-delimited tokens of its text_content; an assignment to
\* text_content afterwards leaves word_count as it was.
WordCountSetAtConstructionOnly ==
    /\ [](Constructed =>
            /\ word_count_arg = 0 =>
                  page.word_count = Tokens(page.text_content)
            /\ word_count_arg # 0 => page.word_count = word_count_arg)
    /\ [][page'.word_count = page.word_count]_vars

\* a record built from two words and no word count, whose text has then
\* been set to a single word: word_count is still 2
TwoWordsCountedThenTextReplaced ==
    /\ ~Constructed
    /\ word_count_arg = 0
    /\ page.word_count = 2
    /\ page.text_content = <<"a">>

----------------------------------------------------------------------------
(* Properties of a PageComparator in use (SpecRepeat).                     *)

\* a result without the two fields that come from the diff library
WithoutDiffs(r) ==
    [r EXCEPT !.levenshtein_distance = 0, !.diff_segments = <<>>]

\* the diff library fixes the diffs of the two given texts and of their
\* first 10000 characters
GivenDiffsFixed ==
    /\ DiffFixed(given[1].text_content, given[2].text_content) # {}
    /\ DiffFixed(Capped(given[1].text_content),
                 Capped(given[2].text_content)) # {}

============================================================================
